---- MODULE Spec2Model ----
(***************************************************************************)
(* Model of the seneschal synchronisation subsystem: the sync engine       *)
(* (core/js/sync/index.js), its merge functions, the seneschal wiring      *)
(* (js/lib/sync.js, js/lib/db.js) and the provider as the engine sees it.  *)
(***************************************************************************)
EXTENDS Integers, Sequences, FiniteSets, TLC

\* ------------------------------------------------------------------ bounds
\* sync() calls per device
MaxCalls == 2
\* sync() calls of both devices together, where two devices run
MaxDeviceCalls == 3
\* largest value of the wall clock
MaxNow == 2
\* registered listeners per engine
MaxListeners == 2
\* longest record sequence drawn as an input of the merge functions
MaxLen == 2

\* ------------------------------------------------------------- value sets
Devices == {"A", "B"}
Ids == {"r1", "r2"}
Titles == {"a", "b"}
\* updatedAt strings; "" is a missing updatedAt, "T0" is the explicit epoch
TimeStamps == {"", "T0", "T1", "T2"}
\* scalar metadata of an object snapshot; "" is a missing field
Metas == {"", "m1", "m2"}
ListenerIds == {"l1", "l2"}

IDLE == "idle"
SYNCING == "syncing"
ERROR == "error"
SyncStatus == {IDLE, SYNCING, ERROR}

\* JavaScript null for the string-valued slots (lastError, result.error)
Null == "null"

VARIABLES
  \* the engine's closure variables and the persisted last-sync value, per device
  status, lastError, listeners, lastSync,
  \* the in-flight sync() call of each device: its position and its locals
  pc, localData, remoteData, merged,
  \* what the calls returned and did (observation only)
  ret, early, trace, pushed, calls, inflight, hist,
  \* the accessors' wiring, the local stores, the provider and the remote document
  active, scenario, wiring, local, connected, folder, remote, now,
  \* inputs and outputs of the merge functions checked on their own
  mLocal, mRemote, mOut, mOut2, mPhase,
  \* the browser's key-value store as the OAuth module uses it, the wall clock
  \* in units of five minutes, and the callback in flight, per provider name
  oauthStore, tokenStore, clock, authSeq, cb,
  \* the token-exchange requests sent and the last OAuth call (observation only)
  exchanges, lastCall,
  \* the saved sync folder and the provider's closure, per installation; the
  \* objects of the drive; the provider call in flight and the calls made
  savedFolder, cache, drive, call, opCount,
  \* the last successful push (observation only)
  prevPush,
  \* an attachment's id and filename, the object name made of them, and what
  \* the listing reads back from the name
  attName,
  \* the forEach of notifyStatusChange in progress, the notifications made, and
  \* the listeners whose unsubscribe function has been called (observation only)
  notif, notifCount, unsubscribed,
  \* what the engine's last accessor call returned (observation only)
  answer,
  \* the ideas and tags object stores of the IndexedDB database, and the last
  \* db call with its argument and result (observation only)
  ideasStore, tagsStore, dbCall

engineVars == <<status, lastError, listeners, lastSync, pc, localData, remoteData,
                merged, ret, early, trace, pushed, calls, inflight, hist>>
envVars == <<active, scenario, wiring, local, connected, folder, remote, now>>
mergeVars == <<mLocal, mRemote, mOut, mOut2, mPhase>>
authVars == <<oauthStore, tokenStore, clock, authSeq, cb, exchanges, lastCall>>
driveVars == <<savedFolder, cache, drive, call, opCount, prevPush>>
nameVars == <<attName>>
listenVars == <<notif, notifCount, unsubscribed, answer>>
dbVars == <<ideasStore, tagsStore, dbCall>>
extVars == <<authVars, driveVars, nameVars, listenVars, dbVars>>
vars == <<engineVars, envVars, mergeVars, extVars>>

\* ------------------------------------------------------------- snapshots
\* A snapshot is a JavaScript value; kind is what the code's dynamic tests see:
\*   "null"   null / undefined                      (!x)
\*   "array"  an array of records                   (Array.isArray(x))
\*   "items"  an object with an items array         (x.items truthy)
\*   "object" an object without items               (the scalar case)
\*   "export" the object exportAllData() builds: {version, exportedAt, ideas, tags}
\* list holds the array, the items or the ideas; updatedAt and meta are the
\* object's own top-level fields ("" when the key is missing); exportedAt is 0
\* when the key is missing.
Snap(k, l, u, m, e) == [kind |-> k, list |-> l, updatedAt |-> u, meta |-> m, exportedAt |-> e]
NullSnap == Snap("null", <<>>, "", "", 0)
ArraySnap(l) == Snap("array", l, "", "", 0)
ItemsSnap(l, u, m) == Snap("items", l, u, m, 0)
ObjectSnap(u, m) == Snap("object", <<>>, u, m, 0)
ExportSnap(l, e) == Snap("export", l, "", "", e)

Rec(i, u, t) == [id |-> i, updatedAt |-> u, title |-> t]
Records == {Rec(i, u, t) : i \in Ids, u \in TimeStamps, t \in Titles}

\* the timestamp reading with a bug: a missing updatedAt counts as the latest
GetTimeMissingLatest(u) == CASE u = "" -> 3 [] u = "T0" -> 0 [] u = "T1" -> 1 [] u = "T2" -> 2
\* new Date(x || 0).getTime(): a missing updatedAt and the explicit epoch both give 0
GetTime(u) == CASE u = "" -> 0 [] u = "T0" -> 0 [] u = "T1" -> 1 [] u = "T2" -> 2

\* ------------------------------------------------------ Map (insertion order)
MapHas(m, id) == \E i \in 1..Len(m) : m[i].id = id
MapGet(m, id) == m[CHOOSE i \in 1..Len(m) : m[i].id = id]
\* Map.prototype.set with a bug: a new key is put first instead of last
MapSetFront(m, id, item) == IF MapHas(m, id)
    THEN [i \in 1..Len(m) |-> IF m[i].id = id THEN item ELSE m[i]]
    ELSE <<item>> \o m
\* Map.prototype.set: an existing key keeps its place, a new key goes last
MapSet(m, id, item) == IF MapHas(m, id)
    THEN [i \in 1..Len(m) |-> IF m[i].id = id THEN item ELSE m[i]]
    ELSE Append(m, item)

\* for (const item of local) merged.set(item.id, item)
RECURSIVE SeedLocal(_, _)
SeedLocal(m, l) == IF l = <<>> THEN m
    ELSE SeedLocal(MapSet(m, Head(l).id, Head(l)), Tail(l))

\* the conflict branch with a bug: a tie is resolved to the remote copy
ResolveTieFlags(st, r) == LET l == MapGet(st.map, r.id) IN
    IF GetTime(r.updatedAt) > GetTime(l.updatedAt)
    THEN [map |-> MapSet(st.map, r.id, r), flag |-> st.flag]
    ELSE [map |-> st.map, flag |-> TRUE]
ResolveTieRemote(st, r) == LET l == MapGet(st.map, r.id) IN
    IF GetTime(r.updatedAt) >= GetTime(l.updatedAt)
    THEN [map |-> MapSet(st.map, r.id, r), flag |-> st.flag]
    ELSE [map |-> st.map, flag |-> TRUE]
\* conflict resolution of one remote item against the mapped item of the same id
Resolve(st, r) == LET l == MapGet(st.map, r.id) IN
    IF GetTime(r.updatedAt) > GetTime(l.updatedAt)
    THEN [map |-> MapSet(st.map, r.id, r), flag |-> st.flag]
    ELSE IF GetTime(l.updatedAt) > GetTime(r.updatedAt)
         THEN [map |-> st.map, flag |-> TRUE]
         ELSE st

\* for (const remoteItem of remote) { ... }
RECURSIVE MergeRemote(_, _)
MergeRemote(st, r) == IF r = <<>> THEN st
    ELSE MergeRemote(
           IF ~MapHas(st.map, Head(r).id)
           THEN [map |-> MapSet(st.map, Head(r).id, Head(r)), flag |-> st.flag]
           ELSE Resolve(st, Head(r)),
           Tail(r))

\* the local-only scan with a bug: a local addition is never flagged
HasLocalOnlyNever(l, r) == FALSE
\* for (const item of local) if (!remote.find(r => r.id === item.id)) ...
HasLocalOnly(l, r) == \E i \in 1..Len(l) : ~\E j \in 1..Len(r) : r[j].id = l[i].id

\* mergeArrays with a bug: the records found only in remote are left out
mergeArraysLocalOnly(l, r) == LET st == MergeRemote([map |-> SeedLocal(<<>>, l), flag |-> FALSE], r) IN
    [local |-> SelectSeq(st.map, LAMBDA x : \E i \in 1..Len(l) : l[i].id = x.id),
     hasLocalChanges |-> st.flag \/ HasLocalOnly(l, r)]
mergeArrays(l, r) == LET st == MergeRemote([map |-> SeedLocal(<<>>, l), flag |-> FALSE], r) IN
    [local |-> st.map, hasLocalChanges |-> st.flag \/ HasLocalOnly(l, r)]

\* the spread with a bug: local's keys override remote's
SpreadLocalFirst(lv, rv, none) == IF lv # none THEN lv ELSE rv
\* { ...local, ...remote }: remote's own keys override local's
Spread(lv, rv, none) == IF rv # none THEN rv ELSE lv

\* the remote-absent branch with a bug: nothing is flagged for pushing
RemoteAbsentNoPush(l) == [local |-> l, hasLocalChanges |-> FALSE]
\* if (!remote) return { local, hasLocalChanges: true }
RemoteAbsent(l) == [local |-> l, hasLocalChanges |-> TRUE]
\* if (!local) return { local: remote, hasLocalChanges: false }
LocalAbsent(r) == [local |-> r, hasLocalChanges |-> FALSE]

\* the sync engine's mergeData(local, remote, lastSync); lastSync is not read
mergeData(l, r) == IF r.kind = "null" THEN RemoteAbsent(l)
    ELSE IF l.kind = "null" THEN LocalAbsent(r)
    ELSE IF l.kind = "array" /\ r.kind = "array"
         THEN LET m == mergeArrays(l.list, r.list) IN
              [local |-> ArraySnap(m.local), hasLocalChanges |-> m.hasLocalChanges]
    ELSE IF l.kind = "items" /\ r.kind = "items"
         THEN LET m == mergeArrays(l.list, r.list) IN
              [local |-> ItemsSnap(m.local, Spread(l.updatedAt, r.updatedAt, ""),
                                   Spread(l.meta, r.meta, "")),
               hasLocalChanges |-> m.hasLocalChanges]
    ELSE IF GetTime(r.updatedAt) > GetTime(l.updatedAt)
         THEN [local |-> r, hasLocalChanges |-> FALSE]
         ELSE [local |-> l, hasLocalChanges |-> GetTime(l.updatedAt) > GetTime(r.updatedAt)]

\* ------------------------------------------------- seneschal wiring (db.js)
\* IndexedDB keeps the ideas store in key order
IdRank(id) == CASE id = "r1" -> 1 [] id = "r2" -> 2
RECURSIVE StoreAdd(_, _)
StoreAdd(store, rec) == IF store = <<>> THEN <<rec>>
    ELSE IF IdRank(rec.id) < IdRank(Head(store).id) THEN <<rec>> \o store
    ELSE <<Head(store)>> \o StoreAdd(Tail(store), rec)
StorePut(store, rec) == [i \in 1..Len(store) |-> IF store[i].id = rec.id THEN rec ELSE store[i]]

\* the comparison with a bug: a remote idea of the same time replaces the stored one
StrGreaterOrEqual(a, b) == a # "" /\ b # "" /\ GetTime(a) >= GetTime(b)
\* string comparison a > b of two updatedAt values; undefined compares false
StrGreater(a, b) == a # "" /\ b # "" /\ GetTime(a) > GetTime(b)

\* for (const remoteIdea of data.ideas) { ... } of db.mergeData
RECURSIVE MergeIdeas(_, _)
MergeIdeas(store, ideas) == IF ideas = <<>> THEN store
    ELSE LET r == Head(ideas) IN
         MergeIdeas(IF ~MapHas(store, r.id) THEN StoreAdd(store, r)
                    ELSE IF StrGreater(r.updatedAt, MapGet(store, r.id).updatedAt)
                         THEN StorePut(store, r)
                         ELSE store,
                    Tail(ideas))

\* db.mergeData(data) on the ideas store: if (!data.ideas) return
dbMergeData(store, data) == IF data.kind # "export" THEN store ELSE MergeIdeas(store, data.list)

\* exportAllData(): { version: 1, exportedAt: now, ideas, tags }
exportAllData(store, t) == ExportSnap(store, t)

\* getLocalData as wired: core/README (state.exportData()) or initSync (exportAllData)
GetLocalData(w, loc, t) == IF w = "seneschal" THEN exportAllData(loc.list, t) ELSE loc
\* setLocalData as wired: state.importData(data) replaces; initSync merges into the db
SetLocalData(w, loc, data) == IF w = "seneschal"
    THEN (IF data.kind = "null" THEN loc ELSE ArraySnap(dbMergeData(loc.list, data)))
    ELSE data

\* ------------------------------------------- the database of ideas (db.js)
\* longest tag list of an idea, and db calls made in one run
MaxTags == 2
MaxEdits == 3
DbIds == {"r1", "r2"}
TagNames == {"a", "b"}
\* the tag lists the form produces: split(','), trimmed, empties dropped,
\* repetitions kept
TagLists == UNION {[1..k -> TagNames] : k \in 0..MaxTags}
\* new Date().toISOString() at the time of a call
DbStamps == {"T1", "T2"}
Idea(i, u, t, tg) == [id |-> i, updatedAt |-> u, title |-> t, tags |-> tg]
\* the argument of importData and of db.mergeData: version 0 and ideas
\* "none" stand for a missing field, ideas "text" for a value that is no list
DbData(v, shape, l, tg) == [version |-> v, ideas |-> shape, list |-> l, tags |-> tg]
NoData == DbData(0, "none", <<>>, <<>>)
TagEntry(n, c) == [name |-> n, count |-> c]
NoDbCall == [op |-> "none", id |-> "", data |-> NoData, ret |-> "", count |-> 0, nth |-> 0]
DbResult(op, id, data, r, n) ==
    [op |-> op, id |-> id, data |-> data, ret |-> r, count |-> n, nth |-> dbCall.nth + 1]
MsgIdeaNotFound == "Idea not found"
MsgInvalidBackup == "Invalid backup file"
MsgConstraint == "ConstraintError"
DbIdle ==
    /\ ideasStore = <<>>
    /\ tagsStore = [t \in TagNames |-> 0]
    /\ dbCall = NoDbCall
notDb == <<engineVars, envVars, mergeVars, authVars, driveVars, nameVars, listenVars>>

Max(a, b) == IF a > b THEN a ELSE b
\* the body of the loop of updateTagCounts; the store holds no entry of count 0
TagCounted(store, tag, delta) ==
    IF store[tag] > 0 THEN [store EXCEPT ![tag] = Max(0, @ + delta)]
    ELSE IF delta > 0 THEN [store EXCEPT ![tag] = delta]
    ELSE store
\* updateTagCounts(store, tags, delta): for (const tag of tags) { ... }
RECURSIVE updateTagCounts(_, _, _)
updateTagCounts(store, tags, delta) ==
    IF tags = <<>> THEN store
    ELSE updateTagCounts(TagCounted(store, Head(tags), delta), Tail(tags), delta)
Includes(tags, t) == \E i \in 1..Len(tags) : tags[i] = t

\* createIdea(idea): id from generateId(), both timestamps now; the tag counts
\* are raised when the idea has tags
CreateIdea(tg) == \E id \in DbIds, t \in DbStamps :
    /\ dbCall.nth < MaxEdits
    /\ ~MapHas(ideasStore, id)
    /\ ideasStore' = StoreAdd(ideasStore, Idea(id, t, "local", tg))
    /\ tagsStore' = IF Len(tg) > 0 THEN updateTagCounts(tagsStore, tg, 1) ELSE tagsStore
    /\ dbCall' = DbResult("createIdea", id, NoData, "ok", 0)
    /\ UNCHANGED notDb

\* updateIdea(id, updates): withTags tells whether updates has a tags list
UpdateIdea(id, withTags, tg) == \E t \in DbStamps :
    /\ dbCall.nth < MaxEdits
    /\ IF ~MapHas(ideasStore, id)
       THEN /\ dbCall' = DbResult("updateIdea", id, NoData, MsgIdeaNotFound, 0)
            /\ UNCHANGED <<ideasStore, tagsStore>>
       ELSE LET existing == MapGet(ideasStore, id)
                oldTags == existing.tags
                newTags == IF withTags THEN tg ELSE oldTags
                removedTags == SelectSeq(oldTags, LAMBDA x : ~Includes(newTags, x))
                addedTags == SelectSeq(newTags, LAMBDA x : ~Includes(oldTags, x))
                afterRemoved == IF Len(removedTags) > 0
                                THEN updateTagCounts(tagsStore, removedTags, -1) ELSE tagsStore
            IN  /\ tagsStore' = IF Len(addedTags) > 0
                                THEN updateTagCounts(afterRemoved, addedTags, 1) ELSE afterRemoved
                /\ ideasStore' = StorePut(ideasStore, Idea(id, t, "local", newTags))
                /\ dbCall' = DbResult("updateIdea", id, NoData, "ok", 0)
    /\ UNCHANGED notDb

\* the ideas store without the idea of a key: ideasStore.delete(id)
StoreDelete(store, id) == SelectSeq(store, LAMBDA r : r.id # id)
\* deleteIdea(id): the tag counts of the stored idea are lowered, then it is deleted
DeleteIdea(id) ==
    /\ dbCall.nth < MaxEdits
    /\ tagsStore' = IF MapHas(ideasStore, id) /\ Len(MapGet(ideasStore, id).tags) > 0
                    THEN updateTagCounts(tagsStore, MapGet(ideasStore, id).tags, -1)
                    ELSE tagsStore
    /\ ideasStore' = StoreDelete(ideasStore, id)
    /\ dbCall' = DbResult("deleteIdea", id, NoData, "ok", 0)
    /\ UNCHANGED notDb

\* the ideas store after add() of each idea of a list, in key order
RECURSIVE StoreAddAll(_, _)
StoreAddAll(store, l) == IF l = <<>> THEN store ELSE StoreAddAll(StoreAdd(store, Head(l)), Tail(l))
\* the tags store after add() of each entry of a list
RECURSIVE TagsAddAll(_, _)
TagsAddAll(store, l) == IF l = <<>> THEN store
    ELSE TagsAddAll([store EXCEPT ![Head(l).name] = Head(l).count], Tail(l))
DistinctIds(l) == \A i, j \in 1..Len(l) : i # j => l[i].id # l[j].id
\* the import with a bug: the ideas are added to the ones already stored
ImportedInto(store, l) == StoreAddAll(SelectSeq(store, LAMBDA r : \A i \in 1..Len(l) : l[i].id # r.id), l)
\* clear(), then add() of every idea of data.ideas
Imported(store, l) == StoreAddAll(<<>>, l)
\* importData(data): the check of the backup, then one transaction that
\* clears both stores and adds the ideas and tags; an add() of a key already
\* added fails and the transaction is rolled back
ImportData(data) ==
    /\ dbCall.nth < MaxEdits
    /\ IF data.version = 0 \/ data.ideas # "list"
       THEN /\ dbCall' = DbResult("importData", "", data, MsgInvalidBackup, 0)
            /\ UNCHANGED <<ideasStore, tagsStore>>
       ELSE IF ~DistinctIds(data.list)
       THEN /\ dbCall' = DbResult("importData", "", data, MsgConstraint, 0)
            /\ UNCHANGED <<ideasStore, tagsStore>>
       ELSE /\ ideasStore' = Imported(ideasStore, data.list)
            /\ tagsStore' = TagsAddAll([t \in TagNames |-> 0], data.tags)
            /\ dbCall' = DbResult("importData", "", data, "ok", Len(data.list))
    /\ UNCHANGED notDb

\* db.mergeData(data) as a call of its own; the tags store is not written
DbMergeData(data) ==
    /\ dbCall.nth < MaxEdits
    /\ ideasStore' = IF data.ideas = "none" THEN ideasStore ELSE MergeIdeas(ideasStore, data.list)
    /\ dbCall' = DbResult("mergeData", "", data, "ok", 0)
    /\ UNCHANGED tagsStore
    /\ UNCHANGED notDb

\* ideas as they arrive from a backup or from the remote document
RemoteIdeas == {Idea(i, u, "remote", <<>>) : i \in DbIds, u \in {"", "T1", "T2"}}
IdeaLists == UNION {[1..k -> RemoteIdeas] : k \in 0..2}
BackupLists == {l \in IdeaLists : \A i \in 1..Len(l) : l[i].updatedAt = "T1"}
Backups == {DbData(v, "list", l, tg) : v \in {0, 1}, l \in BackupLists,
                                      tg \in {<<>>, <<TagEntry("a", 1)>>}}
           \cup {DbData(v, shape, <<>>, <<>>) : v \in {0, 1}, shape \in {"none", "text"}}
MergeArguments == {DbData(0, "list", l, <<>>) : l \in IdeaLists} \cup {NoData}
\* databases that creating ideas leaves behind: ideas in key order, each with
\* no tag or with tag a, and the tag counts that go with them
RECURSIVE TagsOfIdeas(_)
TagsOfIdeas(store) == IF store = <<>> THEN [t \in TagNames |-> 0]
    ELSE updateTagCounts(TagsOfIdeas(Tail(store)), Head(store).tags, 1)
CreatedIdeas == {Idea(i, u, "local", tg) : i \in DbIds, u \in DbStamps, tg \in {<<>>, <<"a">>}}
CreatedStores == {st \in UNION {[1..k -> CreatedIdeas] : k \in 0..2} :
                    \A i, j \in 1..Len(st) : i < j => IdRank(st[i].id) < IdRank(st[j].id)}

\* ------------------------------------------------------------ sync engine
MsgBusy == "Sync already in progress"
MsgNotConnected == "Not connected to sync provider"
MsgNoFolder == "No sync folder configured"
\* messages of the exceptions the collaborators raise
MsgGetLocal == "getLocalData failed"
MsgFetch == "provider.fetch failed"
MsgSetLocal == "setLocalData failed"
MsgPush == "Failed to upload data to Google Drive"
MsgSetLastSync == "setLastSync failed"
MsgListener == "listener failed"

\* what a sync() call gave back: nothing yet, a resolved result object, or a rejection
NoRet == [kind |-> "none", success |-> FALSE, error |-> Null]
Resolved(ok, msg) == [kind |-> "resolved", success |-> ok, error |-> msg]
Rejected(msg) == [kind |-> "rejected", success |-> FALSE, error |-> msg]

\* entries of trace: the collaborator calls and listener invocations of a cycle
CallEv(op) == [op |-> op, who |-> "", st |-> "", err |-> ""]
NotifyEv(l, st, err) == [op |-> "notify", who |-> l, st |-> st, err |-> err]

\* listeners.forEach((l) => l(status, lastError)); k is the position of the
\* listener that throws (0: none does), which ends the loop
NotifyEvents(ls, st, err, k) == [i \in 1..(IF k = 0 THEN Len(ls) ELSE k) |-> NotifyEv(ls[i], st, err)]
ThrowAt(d) == 0..Len(listeners[d])

\* the first guard with a bug: the engine forgets that a cycle is running
AlreadySyncingNever(d) == FALSE
\* if (status === SyncStatus.SYNCING)
AlreadySyncing(d) == status[d] = SYNCING
\* the second guard with a bug: the provider is not asked
NotConnectedNever(d) == FALSE
\* if (!provider.isConnected())
NotConnected(d) == ~connected[d]
\* if (!provider.isFolderConfigured())
NoFolder(d) == ~folder[d]

\* a sync() call that returns before the cycle starts leaves everything but the
\* caller's result alone
Refuse(d, msg) ==
    /\ calls[d] < MaxCalls
    /\ early' = [early EXCEPT ![d] = Resolved(FALSE, msg)]
    /\ calls' = [calls EXCEPT ![d] = @ + 1]
    /\ UNCHANGED <<status, lastError, listeners, lastSync, pc, localData, remoteData,
                   merged, ret, trace, pushed, inflight, hist>>
    /\ UNCHANGED <<envVars, mergeVars, extVars>>

SyncAlreadyInProgress(d) == AlreadySyncing(d) /\ Refuse(d, MsgBusy)
SyncNotConnected(d) == ~AlreadySyncing(d) /\ NotConnected(d) /\ Refuse(d, MsgNotConnected)
SyncNoFolder(d) == ~AlreadySyncing(d) /\ ~NotConnected(d) /\ NoFolder(d) /\ Refuse(d, MsgNoFolder)

\* the catch block: status = ERROR; lastError = err.message; notifyStatusChange();
\* return { success: false, error }.  A listener that throws here rejects the call.
Catch(d, tr, msg) == \E k \in ThrowAt(d) :
    /\ status' = [status EXCEPT ![d] = ERROR]
    /\ lastError' = [lastError EXCEPT ![d] = msg]
    /\ trace' = [trace EXCEPT ![d] = tr \o NotifyEvents(listeners[d], ERROR, msg, k)]
    /\ ret' = [ret EXCEPT ![d] = IF k = 0 THEN Resolved(FALSE, msg) ELSE Rejected(MsgListener)]
    /\ pc' = [pc EXCEPT ![d] = "none"]
    /\ inflight' = [inflight EXCEPT ![d] = @ - 1]
    /\ UNCHANGED hist

\* setLastSync(now); status = IDLE; notifyStatusChange(); return { success: true }
\* still inside the try block: a throwing setLastSync or listener lands in catch
Finish(d, tr) == \E slOk \in BOOLEAN, k \in ThrowAt(d) :
    LET tr1 == Append(tr, CallEv("setLastSync"))
        tr2 == tr1 \o NotifyEvents(listeners[d], IDLE, lastError[d], k)
    IN  IF ~slOk THEN Catch(d, tr1, MsgSetLastSync) /\ UNCHANGED lastSync
        ELSE IF k # 0 THEN Catch(d, tr2, MsgListener) /\ lastSync' = [lastSync EXCEPT ![d] = now]
        ELSE /\ lastSync' = [lastSync EXCEPT ![d] = now]
             /\ status' = [status EXCEPT ![d] = IDLE]
             /\ trace' = [trace EXCEPT ![d] = tr2]
             /\ ret' = [ret EXCEPT ![d] = Resolved(TRUE, Null)]
             /\ pc' = [pc EXCEPT ![d] = "none"]
             /\ inflight' = [inflight EXCEPT ![d] = @ - 1]
             /\ hist' = Append(hist, <<d, "ok">>)
             /\ UNCHANGED lastError

\* the start of a cycle with a bug: the error of the last cycle is left in place
ErrorKept(d) == lastError
\* lastError = null
ErrorCleared(d) == [lastError EXCEPT ![d] = Null]

\* sync() past its guards: status = SYNCING; lastError = null; notifyStatusChange()
\* (outside the try block), then getLocalData() is called and awaited
SyncStart(d) ==
    /\ ~AlreadySyncing(d) /\ ~NotConnected(d) /\ ~NoFolder(d)
    /\ calls[d] < MaxCalls
    /\ calls' = [calls EXCEPT ![d] = @ + 1]
    /\ status' = [status EXCEPT ![d] = SYNCING]
    /\ lastError' = ErrorCleared(d)
    /\ pushed' = [pushed EXCEPT ![d] = NullSnap]
    /\ \E k \in ThrowAt(d) :
         LET tr == NotifyEvents(listeners[d], SYNCING, Null, k) IN
         IF k # 0
         THEN /\ trace' = [trace EXCEPT ![d] = tr]
              /\ ret' = [ret EXCEPT ![d] = Rejected(MsgListener)]
              /\ UNCHANGED <<pc, inflight, hist>>
         ELSE /\ trace' = [trace EXCEPT ![d] = Append(tr, CallEv("getLocalData"))]
              /\ ret' = [ret EXCEPT ![d] = NoRet]
              /\ pc' = [pc EXCEPT ![d] = "getLocalData"]
              /\ inflight' = [inflight EXCEPT ![d] = @ + 1]
              /\ hist' = Append(hist, <<d, "start">>)
    /\ UNCHANGED <<listeners, lastSync, localData, remoteData, merged, early>>
    /\ UNCHANGED <<envVars, mergeVars, extVars>>

\* await getLocalData() settles; getLastSync() is read; provider.fetch() is called
GetLocalDataSettles(d) ==
    /\ pc[d] = "getLocalData"
    /\ \E ok \in BOOLEAN :
         IF ~ok
         THEN Catch(d, trace[d], MsgGetLocal) /\ UNCHANGED localData
         ELSE /\ localData' = [localData EXCEPT ![d] = GetLocalData(wiring[d], local[d], now)]
              /\ trace' = [trace EXCEPT ![d] = Append(@, CallEv("fetch"))]
              /\ pc' = [pc EXCEPT ![d] = "fetch"]
              /\ UNCHANGED <<status, lastError, ret, inflight, hist>>
    /\ UNCHANGED <<listeners, lastSync, remoteData, merged, early, pushed, calls>>
    /\ UNCHANGED <<envVars, mergeVars, extVars>>

\* ---------------------------------------------------- provider, as called
\* the remote data object of the domain: absent, or holding {data, lastModified}
NoRemote == [exists |-> FALSE, data |-> NullSnap, lastModified |-> 0]
\* provider.fetch() and provider.push() need a token and a folder; with both
\* they may still fail on the network
FetchOutcomes(d) == IF connected[d] /\ folder[d] THEN {"ok", "downloadFails", "throws"} ELSE {"throws"}
PushOutcomes(d) == IF connected[d] /\ folder[d] THEN {"ok", "throws"} ELSE {"throws"}
\* fetch() with a bug: a failed download still gives the stored data
FetchedDataKept(rem, o) == rem.data
\* fetch(): { data: response.data || null }, and data: null when the download fails
FetchedData(rem, o) == IF o = "ok" THEN rem.data ELSE NullSnap

\* await provider.fetch() settles; mergeData runs; setLocalData(merged.local) is called
ProviderFetchSettles(d) ==
    /\ pc[d] = "fetch"
    /\ \E o \in FetchOutcomes(d) :
         IF o = "throws"
         THEN Catch(d, trace[d], MsgFetch) /\ UNCHANGED <<remoteData, merged, remote>>
         ELSE /\ remote' = [remote EXCEPT !.exists = TRUE]
              /\ remoteData' = [remoteData EXCEPT ![d] = FetchedData(remote, o)]
              /\ merged' = [merged EXCEPT ![d] = mergeData(localData[d], FetchedData(remote, o))]
              /\ trace' = [trace EXCEPT ![d] = Append(@, CallEv("setLocalData"))]
              /\ pc' = [pc EXCEPT ![d] = "setLocalData"]
              /\ UNCHANGED <<status, lastError, ret, inflight, hist>>
    /\ UNCHANGED <<listeners, lastSync, localData, early, pushed, calls>>
    /\ UNCHANGED <<active, scenario, wiring, local, connected, folder, now, mergeVars, extVars>>

\* the push condition with a bug: every cycle pushes
PushNeededAlways(d) == TRUE
\* if (merged.hasLocalChanges)
PushNeeded(d) == merged[d].hasLocalChanges

\* await setLocalData() settles; then either provider.push() is called or the cycle ends
SetLocalDataSettles(d) ==
    /\ pc[d] = "setLocalData"
    /\ \E ok \in BOOLEAN :
         IF ~ok
         THEN Catch(d, trace[d], MsgSetLocal) /\ UNCHANGED <<local, lastSync>>
         ELSE /\ local' = [local EXCEPT ![d] = SetLocalData(wiring[d], local[d], merged[d].local)]
              /\ IF PushNeeded(d)
                 THEN /\ trace' = [trace EXCEPT ![d] = Append(@, CallEv("push"))]
                      /\ pc' = [pc EXCEPT ![d] = "push"]
                      /\ UNCHANGED <<status, lastError, ret, inflight, hist, lastSync>>
                 ELSE Finish(d, trace[d])
    /\ UNCHANGED <<listeners, localData, remoteData, merged, early, pushed, calls>>
    /\ UNCHANGED <<active, scenario, wiring, connected, folder, remote, now, mergeVars, extVars>>

\* push with a bug: the pushed data is merged into the document that is there
PushedDocumentMerging(rem, data, t) ==
    [exists |-> TRUE, data |-> mergeData(data, rem.data).local, lastModified |-> t]
\* push(): the PATCH replaces the content of the data file with the payload
PushedDocument(rem, data, t) == [exists |-> TRUE, data |-> data, lastModified |-> t]

\* await provider.push({data: merged.local, lastModified}) settles; the cycle ends
ProviderPushSettles(d) ==
    /\ pc[d] = "push"
    /\ \E o \in PushOutcomes(d) :
         IF o = "throws"
         THEN Catch(d, trace[d], MsgPush) /\ UNCHANGED <<remote, pushed, lastSync>>
         ELSE /\ remote' = PushedDocument(remote, merged[d].local, now)
              /\ pushed' = [pushed EXCEPT ![d] = merged[d].local]
              /\ Finish(d, trace[d])
    /\ UNCHANGED <<listeners, localData, remoteData, merged, early, calls>>
    /\ UNCHANGED <<active, scenario, wiring, local, connected, folder, now, mergeVars, extVars>>

\* onStatusChange(listener): listeners.push(listener)
OnStatusChange(d, l) ==
    /\ Len(listeners[d]) < MaxListeners
    /\ \A i \in 1..Len(listeners[d]) : listeners[d][i] # l
    /\ listeners' = [listeners EXCEPT ![d] = Append(@, l)]
    /\ UNCHANGED <<status, lastError, lastSync, pc, localData, remoteData, merged,
                   ret, early, trace, pushed, calls, inflight, hist>>
    /\ UNCHANGED <<envVars, mergeVars, extVars>>

\* the environment: the clock, and the user connecting and choosing a folder
Tick ==
    /\ now < MaxNow
    /\ now' = now + 1
    /\ UNCHANGED <<engineVars, active, scenario, wiring, local, connected, folder, remote, mergeVars, extVars>>
Connect(d) ==
    /\ ~connected[d]
    /\ connected' = [connected EXCEPT ![d] = TRUE]
    /\ UNCHANGED <<engineVars, active, scenario, wiring, local, folder, remote, now, mergeVars, extVars>>
Disconnect(d) ==
    /\ connected[d]
    /\ connected' = [connected EXCEPT ![d] = FALSE]
    /\ UNCHANGED <<engineVars, active, scenario, wiring, local, folder, remote, now, mergeVars, extVars>>
SelectFolder(d) ==
    /\ connected[d] /\ ~folder[d]
    /\ folder' = [folder EXCEPT ![d] = TRUE]
    /\ UNCHANGED <<engineVars, active, scenario, wiring, local, connected, remote, now, mergeVars, extVars>>
RemoveFolder(d) ==
    /\ folder[d]
    /\ folder' = [folder EXCEPT ![d] = FALSE]
    /\ UNCHANGED <<engineVars, active, scenario, wiring, local, connected, remote, now, mergeVars, extVars>>

\* --------------------------------------------------- OAuth (oauth/index.js)
\* largest value of the OAuth wall clock
MaxClock == 3
\* startAuth() calls
MaxAuths == 2
\* token-exchange requests sent
MaxExchanges == 1

\* keys of OAUTH_CONFIG
Providers == {"google", "dropbox"}
\* the OAuth clock counts units of five minutes
\* 10 * 60 * 1000 ms: the validity of a saved OAuth session
SessionValidity == 2
\* 5 * 60 * 1000 ms: the buffer before the stored expiry
ExpiryBuffer == 1
\* 3600 s: the lifetime of a token whose response has no expires_in
DefaultExpiresIn == 12

\* fields of the token response; "" and 0 are a missing field
\* the token endpoint issues a new access token with every exchange
AccessToken(n) == IF n = 1 THEN "at1" ELSE IF n = 2 THEN "at2" ELSE "at3"
RefreshTokens == {"", "rt"}
ExpiresIn == {0, 2}
\* query parameters of the callback URL; "" and 0 are a missing parameter
Url(code, st, err) == [code |-> code, state |-> st, error |-> err]
\* the callback URLs: an error redirect, a missing code, a missing state, and
\* a code with each state startAuth can have issued
CallbackUrls == {Url("", 1, "access_denied"), Url("", 1, ""), Url("c1", 0, "")}
                \cup {Url("c1", st, "") : st \in 1..MaxAuths}

MsgOAuthError == "OAuth error: access_denied"
MsgMissingParam == "Missing code or state parameter"
MsgInvalidState == "Invalid state parameter"
MsgExchangeFailed == "Token exchange failed"
MsgTransport == "Failed to fetch"
AuthErrors == {MsgOAuthError, MsgMissingParam, MsgInvalidState, MsgExchangeFailed, MsgTransport}
RetNone == "none"
RetTrue == "true"
RetNull == "null"

\* localStorage entries oauth-{provider} and token-{provider}
NoSession == [has |-> FALSE, state |-> 0, verifier |-> 0, timestamp |-> 0]
NoToken == [has |-> FALSE, accessToken |-> "", refreshToken |-> "", expiry |-> 0]
NoCallback == [pc |-> "none", url |-> Url("", 0, ""), verifier |-> 0]
\* the last call made: its name, its provider, the callback URL it read, what
\* it returned or threw (RetNone: nothing, or nothing yet), the outcome of the
\* request it awaited, and the stored session it read
Call(op, p, url, r, net, saw) == [op |-> op, p |-> p, url |-> url, ret |-> r, net |-> net, saw |-> saw]
NoUrl == Url("", 0, "")

\* the session check with a bug: a saved session never expires
SessionExpiredNever(s, t) == FALSE
\* Date.now() - parsed.timestamp > 10 * 60 * 1000
SessionExpired(s, t) == t - s.timestamp > SessionValidity
\* getOAuthState(provider): the session it returns, which is also what the
\* store holds afterwards (an expired session is removed, and null returned)
getOAuthState(s, t) == IF s.has /\ SessionExpired(s, t) THEN NoSession ELSE s

\* the state check with a bug: any saved session validates the callback
StateMismatchNever(saved, st) == ~saved.has
\* !savedState || savedState.state !== state
StateMismatch(saved, st) == ~saved.has \/ saved.state # st

\* the expiry check with a bug: the five-minute buffer is left out
TokenUnusableNoBuffer(rec, t) == t > rec.expiry
\* Date.now() > parsed.expiry - 5 * 60 * 1000
TokenUnusable(rec, t) == t > rec.expiry - ExpiryBuffer

\* saveToken(provider, token): expiry = Date.now() + (token.expires_in || 3600) * 1000
saveToken(at, rt, ex, t) == [has |-> TRUE, accessToken |-> at, refreshToken |-> rt,
                             expiry |-> t + (IF ex = 0 THEN DefaultExpiresIn ELSE ex)]

\* isAuthenticated(provider): getToken(provider) !== null, on getToken's result
isAuthenticated(tok) == tok # RetNull

\* the session store with a bug: a session already saved is not replaced
saveOAuthStateOnce(store, p, st, verifier, t) ==
    IF store[p].has THEN store
    ELSE [store EXCEPT ![p] = [has |-> TRUE, state |-> st, verifier |-> verifier, timestamp |-> t]]
\* saveOAuthState(provider, state, verifier): setItem under the provider's key
saveOAuthState(store, p, st, verifier, t) ==
    [store EXCEPT ![p] = [has |-> TRUE, state |-> st, verifier |-> verifier, timestamp |-> t]]

\* startAuth(provider, ...): a fresh state and verifier are saved with the time
StartAuth(p) ==
    /\ authSeq < MaxAuths
    /\ \A q \in Providers : cb[q].pc = "none"
    /\ authSeq' = authSeq + 1
    /\ oauthStore' = saveOAuthState(oauthStore, p, authSeq + 1, authSeq + 1, clock)
    /\ lastCall' = Call("startAuth", p, NoUrl, RetNone, "", NoSession)
    /\ UNCHANGED <<tokenStore, clock, cb, exchanges>>
    /\ UNCHANGED <<engineVars, envVars, mergeVars, driveVars, nameVars, listenVars, dbVars>>

\* handleCallback(provider, ...) up to its first await: the parameter checks,
\* the state check, and the token-exchange request sent.  The page handles the
\* callback URL it was loaded with, one callback at a time.
HandleCallback(p, url) ==
    /\ \A q \in Providers : cb[q].pc = "none"
    /\ IF url.error # ""
       THEN /\ lastCall' = Call("handleCallback", p, url, MsgOAuthError, "", NoSession)
            /\ UNCHANGED <<oauthStore, cb, exchanges>>
       ELSE IF url.code = "" \/ url.state = 0
       THEN /\ lastCall' = Call("handleCallback", p, url, MsgMissingParam, "", NoSession)
            /\ UNCHANGED <<oauthStore, cb, exchanges>>
       ELSE LET savedState == getOAuthState(oauthStore[p], clock) IN
            /\ oauthStore' = [oauthStore EXCEPT ![p] = savedState]
            /\ IF StateMismatch(savedState, url.state)
               THEN /\ lastCall' = Call("handleCallback", p, url, MsgInvalidState, "", oauthStore[p])
                    /\ UNCHANGED <<cb, exchanges>>
               ELSE /\ exchanges < MaxExchanges
                    /\ exchanges' = exchanges + 1
                    /\ cb' = [cb EXCEPT ![p] = [pc |-> "exchange", url |-> url,
                                                verifier |-> savedState.verifier]]
                    /\ lastCall' = Call("handleCallback", p, url, RetNone, "", oauthStore[p])
    /\ UNCHANGED <<tokenStore, clock, authSeq>>
    /\ UNCHANGED <<engineVars, envVars, mergeVars, driveVars, nameVars, listenVars, dbVars>>

\* the end of the callback with a bug: the session stays in the store
SessionKept(store, p) == store
\* localStorage.removeItem(`oauth-${provider}`) once the token is saved
SessionCleared(store, p) == [store EXCEPT ![p] = NoSession]

\* the token endpoint answers: a non-success status or a transport failure
\* throws; a success saves the token and removes the session
TokenExchangeSettles(p) ==
    /\ cb[p].pc = "exchange"
    /\ cb' = [cb EXCEPT ![p] = NoCallback]
    /\ \E o \in {"ok", "notOk", "transport"} :
         IF o = "ok"
         THEN \E rt \in RefreshTokens, ex \in ExpiresIn :
                /\ tokenStore' = [tokenStore EXCEPT ![p] = saveToken(AccessToken(exchanges), rt, ex, clock)]
                /\ oauthStore' = SessionCleared(oauthStore, p)
                /\ lastCall' = Call("exchangeSettles", p, cb[p].url, RetTrue, o, NoSession)
         ELSE /\ lastCall' = Call("exchangeSettles", p, cb[p].url,
                                  IF o = "notOk" THEN MsgExchangeFailed ELSE MsgTransport,
                                  o, NoSession)
              /\ UNCHANGED <<tokenStore, oauthStore>>
    /\ UNCHANGED <<clock, authSeq, exchanges>>
    /\ UNCHANGED <<engineVars, envVars, mergeVars, driveVars, nameVars, listenVars, dbVars>>

\* getToken(provider)
GetToken(p) ==
    /\ IF ~tokenStore[p].has
       THEN lastCall' = Call("getToken", p, NoUrl, RetNull, "", NoSession) /\ UNCHANGED tokenStore
       ELSE IF TokenUnusable(tokenStore[p], clock)
       THEN /\ lastCall' = Call("getToken", p, NoUrl, RetNull, "", NoSession)
            /\ IF tokenStore[p].refreshToken # ""
               THEN UNCHANGED tokenStore
               ELSE tokenStore' = [tokenStore EXCEPT ![p] = NoToken]
       ELSE /\ lastCall' = Call("getToken", p, NoUrl, tokenStore[p].accessToken, "", NoSession)
            /\ UNCHANGED tokenStore
    /\ UNCHANGED <<oauthStore, clock, authSeq, cb, exchanges>>
    /\ UNCHANGED <<engineVars, envVars, mergeVars, driveVars, nameVars, listenVars, dbVars>>

\* logout with a bug: the entry is left in the store
RemoveItemNever(store, p, none) == store
\* localStorage.removeItem(`token-${provider}`), removeItem(`oauth-${provider}`)
RemoveItem(store, p, none) == [store EXCEPT ![p] = none]
\* logout(provider): both entries of the provider are removed
Logout(p) ==
    /\ tokenStore' = RemoveItem(tokenStore, p, NoToken)
    /\ oauthStore' = RemoveItem(oauthStore, p, NoSession)
    /\ lastCall' = Call("logout", p, NoUrl, RetNone, "", NoSession)
    /\ UNCHANGED <<clock, authSeq, cb, exchanges>>
    /\ UNCHANGED <<engineVars, envVars, mergeVars, driveVars, nameVars, listenVars, dbVars>>

\* five minutes pass
ClockTick ==
    /\ clock < MaxClock
    /\ clock' = clock + 1
    /\ lastCall' = Call("tick", "", NoUrl, RetNone, "", NoSession)
    /\ UNCHANGED <<oauthStore, tokenStore, authSeq, cb, exchanges>>
    /\ UNCHANGED <<engineVars, envVars, mergeVars, driveVars, nameVars, listenVars, dbVars>>

\* an empty key-value store, no call made
AuthIdle ==
    /\ oauthStore = [p \in Providers |-> NoSession]
    /\ tokenStore = [p \in Providers |-> NoToken]
    /\ clock = 0
    /\ authSeq = 0
    /\ cb = [p \in Providers |-> NoCallback]
    /\ exchanges = 0
    /\ lastCall = Call("none", "", NoUrl, RetNone, "", NoSession)

\* ------------------------------------- Google Drive provider (google-drive.js)
\* objects in the drive, the two selectable folders included
MaxObjects == 6
\* provider calls and changes of token or folder, per installation
MaxOps == 3

\* the folders the picker can return; they are objects 1 and 2 of the drive
FolderIds == {1, 2}
\* `${domain}-data.json`, 'attachments', domain, and an uploaded attachment
DataFile == "seneschal-data.json"
AttachmentsName == "attachments"
DomainName == "seneschal"
AttachmentFile == "attachment"
RootFolder == "folder"
Trashed == "trashed"

MsgNotAuthenticated == "Not authenticated with Google"
MsgNoFolderSelected == "No folder selected. Please select a folder in Settings."
MsgApiFailed == "API request failed"
MsgUploadAttachment == "Failed to upload attachment"
MsgDownloadAttachment == "Failed to download attachment"

\* the body of a drive object: empty, not JSON, JSON that is not an object, or
\* the document {domain, version, data, lastModified}
Content(k, data, lm, v) == [kind |-> k, data |-> data, lastModified |-> lm, version |-> v]
EmptyContent == Content("empty", NullSnap, 0, 0)
BodyKinds == {"empty", "garbage", "scalar", "doc"}
Obj(name, parent, c) == [name |-> name, parent |-> parent, content |-> c]
\* files.list with q = name='..' and '..' in parents and trashed=false
Matches(dr, name, parent) == {i \in 1..Len(dr) : dr[i].name = name /\ dr[i].parent = parent}

\* the argument of push(syncData); 0 is a missing lastModified or version
Payload(data, lm, v) == [data |-> data, lastModified |-> lm, version |-> v]
NoPayload == Payload(NullSnap, 0, 0)
PushPayloads == {Payload(ArraySnap(<<Rec("r1", "T1", "a")>>), 1, 0),
                 Payload(ArraySnap(<<Rec("r1", "T1", "a")>>), 0, 0),
                 Payload(ArraySnap(<<Rec("r2", "T2", "b")>>), 2, 2)}
\* payload = { domain, version: syncData.version || 1, data: syncData.data,
\*             lastModified: syncData.lastModified || new Date().toISOString() }
Document(p, t) == Content("doc", p.data, IF p.lastModified = 0 THEN t ELSE p.lastModified,
                          IF p.version = 0 THEN 1 ELSE p.version)

\* apiRequest's reading of a response body: null for an empty or unparseable
\* text, the parsed value otherwise
ParseBody(c) == IF c.kind \in {"empty", "garbage"} THEN Content("null", NullSnap, 0, 0) ELSE c
\* fetch() with a bug: the document's data is read from the wrong field
FetchResultNoData(resp) == [data |-> NullSnap, lastModified |-> IF resp.kind # "doc" THEN 0 ELSE resp.lastModified]
\* if (!response || typeof response !== 'object') return { data: null, lastModified: null }
\* return { data: response.data || null, lastModified: response.lastModified || null }
FetchResult(resp) == IF resp.kind # "doc" THEN [data |-> NullSnap, lastModified |-> 0]
                     ELSE [data |-> resp.data, lastModified |-> resp.lastModified]

\* the closure variables fileId and attachmentsFolderId (0: null); fileStale
\* and attStale tell that the id was stored by a lookup that had started
\* before the cache was last reset
NoCache == [fileId |-> 0, attachmentsFolderId |-> 0, fileStale |-> FALSE, attStale |-> FALSE]

\* the last successful push of an installation since its cache was reset
NoPrior == [has |-> FALSE, payload |-> NoPayload, id |-> 0, content |-> EmptyContent]
\* a provider call: its name and position, its arguments and locals, what was
\* true when it was called, the requests it sent, and what it gave back
NoOp == [name |-> "none", pc |-> "idle", payload |-> NoPayload, rid |-> 0,
         id |-> 0, folderId |-> 0, parentId |-> 0,
         hadToken |-> FALSE, hadFolder |-> FALSE, sentToken |-> FALSE, reqs |-> 0,
         old |-> FALSE, lostToken |-> FALSE, usedStale |-> FALSE, created |-> FALSE,
         failed |-> "", seen |-> EmptyContent, prior |-> NoPrior, stamp |-> 0,
         ret |-> "none", error |-> "", data |-> NullSnap, lastModified |-> 0, n |-> 0]
InFlight(o) == o.pc \notin {"idle", "done"}
NewOp(d, name, p, rid) == [NoOp EXCEPT !.name = name, !.payload = p, !.rid = rid,
                                       !.hadToken = connected[d], !.hadFolder = (savedFolder[d] # 0)]
Throw(o, msg) == [o EXCEPT !.pc = "done", !.ret = "error", !.error = msg]
Return(o, data, lm, n) == [o EXCEPT !.pc = "done", !.ret = "ok", !.data = data,
                                    !.lastModified = lm, !.n = n]
\* window.fetch(...) is called: one more request is on the wire
Request(o, at) == [o EXCEPT !.pc = at, !.reqs = @ + 1]
\* apiRequest(...): if (!token) throw new Error('Not authenticated with Google'),
\* before the request is sent
ApiRequest(d, o, at) == IF ~connected[d] THEN Throw(o, MsgNotAuthenticated) ELSE Request(o, at)

\* fetch() after getOrCreateDataFile(): the download sits in a try block, so
\* apiRequest's missing-token exception becomes { data: null, lastModified: null }
Download(d, o, id) == IF ~connected[d] THEN Return([o EXCEPT !.id = id], NullSnap, 0, 0)
                      ELSE Request([o EXCEPT !.id = id], "download")
\* push() after getOrCreateDataFile(): the payload is built, new Date() is
\* read, getToken() is not checked and the PATCH is sent with whatever it returned
Upload(d, o, id) == Request([o EXCEPT !.id = id, !.sentToken = connected[d], !.stamp = now], "upload")
UseDataFile(d, o, id) == IF o.name = "fetch" THEN Download(d, o, id) ELSE Upload(d, o, id)

\* if (fileId) return fileId
CachedFileId(d) == cache[d].fileId # 0
\* getOrCreateDataFile() up to its first await
LookupDataFile(d, o) ==
    IF CachedFileId(d)
    THEN UseDataFile(d, [o EXCEPT !.usedStale = cache[d].fileStale], cache[d].fileId)
    ELSE IF savedFolder[d] = 0 THEN Throw(o, MsgNoFolderSelected)
    ELSE ApiRequest(d, [o EXCEPT !.folderId = savedFolder[d]], "search")

\* uploadAttachment() and listAttachments() after getOrCreateAttachmentsFolder()
UseAttachments(d, o, id) ==
    IF o.name = "uploadAttachment"
    THEN Request([o EXCEPT !.id = id, !.sentToken = connected[d]], "attUpload")
    ELSE ApiRequest(d, [o EXCEPT !.id = id], "attList")
\* getOrCreateAttachmentsFolder() up to its first await
LookupAttachments(d, o) ==
    IF cache[d].attachmentsFolderId # 0
    THEN UseAttachments(d, [o EXCEPT !.usedStale = cache[d].attStale], cache[d].attachmentsFolderId)
    ELSE IF savedFolder[d] = 0 THEN Throw(o, MsgNoFolderSelected)
    ELSE ApiRequest(d, [o EXCEPT !.folderId = savedFolder[d]], "attSearch")

\* ------------------------------------------ attachment names (google-drive.js)
\* characters of an attachment id or a filename
MaxNameLen == 3
\* strings are sequences of characters; '-' is the separator
Chars == {"a", "b", "-"}
Dash == "-"
Strings(n) == UNION {[1..k -> Chars] : k \in 0..n}
\* a file's name: not empty
Filenames == Strings(MaxNameLen) \ {<<>>}
\* an id: not empty, with '-' inside at most, as in the ids of
\* crypto.randomUUID() (8-4-4-4-12) and in ids without '-'
AttachmentIds == {str \in Filenames : str[1] # Dash /\ str[Len(str)] # Dash}

\* name: `${attachmentId}-${filename}`
EncodeName(id, filename) == id \o <<Dash>> \o filename
\* String.prototype.indexOf: the index, from 0, of the first occurrence, or -1
IndexOf(str, c) ==
    IF \E i \in 1..Len(str) : str[i] = c
    THEN (CHOOSE i \in 1..Len(str) : str[i] = c /\ \A j \in 1..(i - 1) : str[j] # c) - 1
    ELSE 0 - 1
\* String.prototype.substring(from, to) and substring(from)
Substring(str, from, to) == SubSeq(str, from + 1, to)
SubstringFrom(str, from) == SubSeq(str, from + 1, Len(str))
\* const dashIndex = file.name.indexOf('-');
\* id = dashIndex > 0 ? file.name.substring(0, dashIndex) : file.name
\* filename = dashIndex > 0 ? file.name.substring(dashIndex + 1) : file.name
DecodeName(name) ==
    LET dashIndex == IndexOf(name, Dash) IN
    [id |-> IF dashIndex > 0 THEN Substring(name, 0, dashIndex) ELSE name,
     filename |-> IF dashIndex > 0 THEN SubstringFrom(name, dashIndex + 1) ELSE name]

NoName == [pc |-> "idle", id |-> <<>>, filename |-> <<>>, name |-> <<>>,
           listedId |-> <<>>, listedFilename |-> <<>>]
NamesIdle == attName = NoName
notNames == <<engineVars, envVars, mergeVars, authVars, driveVars, listenVars, dbVars>>

\* uploadAttachment(attachmentId, filename, ...): the object is named
NameAttachment(id, filename) ==
    /\ attName.pc = "idle"
    /\ attName' = [attName EXCEPT !.pc = "uploaded", !.id = id, !.filename = filename,
                                  !.name = EncodeName(id, filename)]
    /\ UNCHANGED notNames

\* listAttachments(): the object's name is read back
ListName ==
    /\ attName.pc = "uploaded"
    /\ attName' = [attName EXCEPT !.pc = "listed",
                                  !.listedId = DecodeName(attName.name).id,
                                  !.listedFilename = DecodeName(attName.name).filename]
    /\ UNCHANGED notNames

\* --------------------------- listeners, one invocation at a time (index.js)
\* listeners registered and status notifications made in one run
MaxRegistrations == 3
MaxNotifications == 3
Subscribers == {"l1", "l2", "l3"}

\* listeners.forEach((l) => l(status, lastError)) in progress: forEach visits
\* the elements the array object had when it was called, so arr is that array;
\* i is the next index; called lists the invocations made, each with the
\* arguments passed and whether the listener had been unsubscribed by then
NoNotif == [pc |-> "idle", arr |-> <<>>, i |-> 0, called |-> <<>>, st |-> IDLE, err |-> Null,
            threw |-> FALSE]
Invocation(l, st, err, gone) == [who |-> l, st |-> st, err |-> err, gone |-> gone]
Answer(op, val) == [op |-> op, val |-> val]
ListenIdle == notif = NoNotif /\ notifCount = 0 /\ unsubscribed = {} /\ answer = Answer("none", Null)
notListen == <<lastSync, localData, remoteData, merged, ret, early, trace, pushed, calls,
               inflight, hist, envVars, mergeVars, authVars, driveVars, nameVars, answer, dbVars>>

\* listeners = listeners.filter((l) => l !== listener): a new array
Without(ls, l) == SelectSeq(ls, LAMBDA x : x # l)

\* notifyStatusChange() is entered with the new status and lastError
ForEachBegins(d, st, err) ==
    /\ notifCount < MaxNotifications
    /\ notifCount' = notifCount + 1
    /\ status' = [status EXCEPT ![d] = st]
    /\ lastError' = [lastError EXCEPT ![d] = err]
    /\ notif' = [NoNotif EXCEPT !.pc = "calling", !.arr = listeners[d], !.i = 1, !.st = st, !.err = err]
    /\ UNCHANGED <<listeners, unsubscribed, notListen>>

\* sync() past its guards: status = SYNCING; lastError = null; notifyStatusChange()
NotifySyncing(d) ==
    /\ notif.pc \in {"idle", "done"} /\ pc[d] = "none"
    /\ status[d] # SYNCING
    /\ pc' = [pc EXCEPT ![d] = "start"]
    /\ ForEachBegins(d, SYNCING, Null)

\* the end of the try block: status = IDLE; notifyStatusChange()
NotifyIdle(d) ==
    /\ notif.pc = "done" /\ pc[d] = "cycle"
    /\ pc' = [pc EXCEPT ![d] = "finish"]
    /\ ForEachBegins(d, IDLE, lastError[d])

\* the catch block, after a step of the cycle has thrown: status = ERROR;
\* lastError = err.message; notifyStatusChange()
NotifyError(d) ==
    /\ notif.pc = "done" /\ pc[d] = "cycle"
    /\ pc' = [pc EXCEPT ![d] = "catch"]
    /\ ForEachBegins(d, ERROR, MsgFetch)

\* forEach calls the next listener with the closure's status and lastError;
\* the listener returns or throws, and an exception ends the loop
ListenerCalled(d) ==
    /\ notif.pc = "calling" /\ notif.i <= Len(notif.arr)
    /\ \E throws \in BOOLEAN :
         notif' = [notif EXCEPT
                     !.called = Append(@, Invocation(notif.arr[notif.i], status[d], lastError[d],
                                                     notif.arr[notif.i] \in unsubscribed)),
                     !.i = @ + 1,
                     !.pc = IF throws THEN "thrown" ELSE @,
                     !.threw = throws]
    /\ UNCHANGED <<engineVars, notifCount, unsubscribed, notListen>>

\* forEach returns: after the SYNCING notification the cycle goes on to its
\* awaits; after the others sync() returns
ForEachReturns(d) ==
    /\ notif.pc = "calling" /\ notif.i > Len(notif.arr)
    /\ notif' = [notif EXCEPT !.pc = "done"]
    /\ pc' = [pc EXCEPT ![d] = IF @ = "start" THEN "cycle" ELSE "none"]
    /\ UNCHANGED <<status, lastError, listeners, notifCount, unsubscribed, notListen>>

\* a listener's exception leaves notifyStatusChange(): outside the try block
\* (SYNCING) and in the catch block (ERROR) it rejects sync(); in the try block
\* (IDLE) it lands in catch, which notifies ERROR
ListenerThrew(d) ==
    /\ notif.pc = "thrown"
    /\ IF pc[d] = "finish"
       THEN /\ pc' = [pc EXCEPT ![d] = "catch"]
            /\ notifCount' = notifCount
            /\ status' = [status EXCEPT ![d] = ERROR]
            /\ lastError' = [lastError EXCEPT ![d] = MsgListener]
            /\ notif' = [notif EXCEPT !.pc = "aborted"]
       ELSE /\ pc' = [pc EXCEPT ![d] = "none"]
            /\ notif' = [notif EXCEPT !.pc = "aborted"]
            /\ UNCHANGED <<status, lastError, notifCount>>
    /\ UNCHANGED <<listeners, unsubscribed, notListen>>

\* the catch block's own notifyStatusChange() after a listener threw in the try block
NotifyCaught(d) ==
    /\ notif.pc = "aborted" /\ pc[d] = "catch"
    /\ UNCHANGED pc
    /\ ForEachBegins(d, ERROR, MsgListener)

\* a sync() rejected by a listener leaves status as it is; a later sync() finds it
CycleOver(d) == notif.pc \in {"idle", "done", "aborted"} /\ pc[d] \in {"none", "cycle"}
\* code that may run now: the application between notifications, or the body
\* of a listener that forEach has called
MayRun(d) == CycleOver(d) \/ (notif.pc = "calling" /\ notif.i > 1)

\* onStatusChange(listener): listeners.push(listener); each registration is a
\* function of its own
Subscribe(d, l) ==
    /\ MayRun(d)
    /\ Len(listeners[d]) + Cardinality(unsubscribed) < MaxRegistrations
    /\ l \notin unsubscribed /\ \A i \in 1..Len(listeners[d]) : listeners[d][i] # l
    /\ listeners' = [listeners EXCEPT ![d] = Append(@, l)]
    /\ UNCHANGED <<status, lastError, pc, listenVars, notListen>>

\* the function returned by onStatusChange(l) is called
Unsubscribe(d, l) ==
    /\ MayRun(d)
    /\ \E i \in 1..Len(listeners[d]) : listeners[d][i] = l
    /\ listeners' = [listeners EXCEPT ![d] = Without(@, l)]
    /\ unsubscribed' = unsubscribed \cup {l}
    /\ UNCHANGED <<status, lastError, pc, notif, notifCount, notListen>>

\* the accessors of the engine: each returns a value and assigns nothing
Accessor(op, val) ==
    /\ answer' = Answer(op, val)
    /\ UNCHANGED <<engineVars, envVars, mergeVars, authVars, driveVars, nameVars,
                   notif, notifCount, unsubscribed, dbVars>>
\* getStatus(): return status
GetStatus(d) == MayRun(d) /\ Accessor("getStatus", status[d])
\* getError(): return lastError
GetError(d) == MayRun(d) /\ Accessor("getError", lastError[d])
\* getLastSync(): the stored timestamp, or null when none is stored
GetLastSync(d) == MayRun(d) /\ Accessor("getLastSync", IF lastSync[d] = 0 THEN Null ELSE "stored")
\* canSync(): navigator.onLine && provider.isConnected() && provider.isFolderConfigured()
CanSync(d) == MayRun(d) /\ \E onLine \in BOOLEAN :
    Accessor("canSync", IF onLine /\ connected[d] /\ folder[d] THEN "true" ELSE "false")

\* everything the provider does not touch
notProvider == <<engineVars, mergeVars, authVars, nameVars, listenVars, dbVars, active, scenario, wiring, local, remote>>
providerRest == <<notProvider, connected, folder, now, savedFolder>>

CanStart(d) == ~InFlight(call[d]) /\ opCount[d] < MaxOps
Started(d, o) ==
    /\ call' = [call EXCEPT ![d] = o]
    /\ opCount' = [opCount EXCEPT ![d] = @ + 1]
    /\ UNCHANGED <<cache, drive, prevPush, providerRest>>
Stepped(d, o) ==
    /\ call' = [call EXCEPT ![d] = o]
    /\ UNCHANGED <<opCount, providerRest>>

\* provider.fetch()
Fetch(d) == CanStart(d) /\ Started(d, LookupDataFile(d, NewOp(d, "fetch", NoPayload, 0)))
\* provider.push(syncData)
Push(d, p) == CanStart(d) /\
    Started(d, LookupDataFile(d, [NewOp(d, "push", p, 0) EXCEPT !.prior = prevPush[d]]))
\* provider.uploadAttachment(attachmentId, filename, blob, mimeType)
UploadAttachment(d) == CanStart(d) /\ Started(d, LookupAttachments(d, NewOp(d, "uploadAttachment", NoPayload, 0)))
\* provider.listAttachments()
ListAttachments(d) == CanStart(d) /\ Started(d, LookupAttachments(d, NewOp(d, "listAttachments", NoPayload, 0)))
\* provider.downloadAttachment(remoteId): no token check before the request
DownloadAttachment(d, rid) == CanStart(d) /\
    Started(d, Request([NewOp(d, "downloadAttachment", NoPayload, rid) EXCEPT !.sentToken = connected[d]],
                       "attDownload"))
\* provider.deleteAttachment(remoteId)
DeleteAttachment(d, rid) == CanStart(d) /\
    Started(d, ApiRequest(d, NewOp(d, "deleteAttachment", NoPayload, rid), "attDelete"))
\* provider.listAllDomainFiles(): if (!folder) return []
ListAllDomainFiles(d) == CanStart(d) /\
    Started(d, LET o == NewOp(d, "listAllDomainFiles", NoPayload, 0) IN
               IF savedFolder[d] = 0 THEN Return(o, NullSnap, 0, 0)
               ELSE ApiRequest(d, [o EXCEPT !.folderId = savedFolder[d]], "domainList"))

\* fetchDomainData with a bug: apiRequest's exception is not caught
DomainFetchUncaught(d, o) == ApiRequest(d, o, "domainFetch")
\* try { const response = await apiRequest(...) } catch { return null }: the
\* missing-token exception of apiRequest is caught
DomainFetch(d, o) == IF ~connected[d] THEN Return(o, NullSnap, 0, 0) ELSE Request(o, "domainFetch")
\* provider.fetchDomainData(domainFileId)
FetchDomainData(d, rid) == CanStart(d) /\
    Started(d, DomainFetch(d, NewOp(d, "fetchDomainData", NoPayload, rid)))

\* what a request can come to: a success status, another status, no response
Outcomes == {"ok", "notOk", "transport"}
Failure(o, out) == Throw([o EXCEPT !.failed = o.pc], IF out = "notOk" THEN MsgApiFailed ELSE MsgTransport)

\* getOrCreateDataFile(): the search answers
SearchSettles(d) ==
    /\ call[d].pc = "search"
    /\ \E out \in Outcomes :
         IF out # "ok" THEN Stepped(d, Failure(call[d], out)) /\ UNCHANGED <<cache, drive, prevPush>>
         ELSE LET found == Matches(drive, DataFile, call[d].folderId) IN
              IF found # {}
              THEN \E i \in found :
                     /\ cache' = [cache EXCEPT ![d].fileId = i, ![d].fileStale = call[d].old]
                     /\ Stepped(d, UseDataFile(d, call[d], i))
                     /\ UNCHANGED <<drive, prevPush>>
              ELSE /\ Stepped(d, ApiRequest(d, call[d], "create"))
                   /\ UNCHANGED <<cache, drive, prevPush>>

\* getOrCreateDataFile(): the create request answers; fileId = createResult.id
CreateSettles(d) ==
    /\ call[d].pc = "create"
    /\ \E out \in Outcomes :
         IF out # "ok" THEN Stepped(d, Failure(call[d], out)) /\ UNCHANGED <<cache, drive, prevPush>>
         ELSE /\ Len(drive) < MaxObjects
              /\ drive' = Append(drive, Obj(DataFile, call[d].folderId, EmptyContent))
              /\ cache' = [cache EXCEPT ![d].fileId = Len(drive) + 1, ![d].fileStale = call[d].old]
              /\ Stepped(d, UseDataFile(d, [call[d] EXCEPT !.created = TRUE], Len(drive) + 1))
              /\ UNCHANGED prevPush

\* fetch(): the download answers; any failure is caught
DownloadSettles(d) ==
    /\ call[d].pc = "download"
    /\ \E out \in Outcomes :
         LET body == drive[call[d].id].content
             r == FetchResult(ParseBody(body))
         IN  IF out # "ok"
             THEN Stepped(d, Return([call[d] EXCEPT !.failed = "download"], NullSnap, 0, 0))
             ELSE Stepped(d, Return([call[d] EXCEPT !.seen = body], r.data, r.lastModified, 0))
    /\ UNCHANGED <<cache, drive, prevPush>>

\* push(): the PATCH answers; a request without a token is refused
UploadSettles(d) ==
    /\ call[d].pc = "upload"
    /\ \E out \in (IF call[d].sentToken THEN Outcomes ELSE {"notOk", "transport"}) :
         IF out = "ok"
         THEN LET c == Document(call[d].payload, call[d].stamp) IN
              /\ drive' = [drive EXCEPT ![call[d].id].content = c]
              /\ prevPush' = [prevPush EXCEPT ![d] = [has |-> TRUE, payload |-> call[d].payload,
                                                      id |-> call[d].id, content |-> c]]
              /\ Stepped(d, Return(call[d], NullSnap, 0, 0))
         ELSE /\ Stepped(d, Throw([call[d] EXCEPT !.failed = "upload"],
                                  IF out = "notOk" THEN MsgPush ELSE MsgTransport))
              /\ UNCHANGED <<drive, prevPush>>
    /\ UNCHANGED cache

\* getOrCreateAttachmentsFolder(): the search for 'attachments' answers
AttSearchSettles(d) ==
    /\ call[d].pc = "attSearch"
    /\ \E out \in Outcomes :
         IF out # "ok" THEN Stepped(d, Failure(call[d], out))
         ELSE LET found == Matches(drive, AttachmentsName, call[d].folderId) IN
              IF found # {}
              THEN \E i \in found : Stepped(d, ApiRequest(d, [call[d] EXCEPT !.parentId = i], "domSearch"))
              ELSE Stepped(d, ApiRequest(d, call[d], "attCreate"))
    /\ UNCHANGED <<cache, drive, prevPush>>

\* getOrCreateAttachmentsFolder(): 'attachments' is created
AttCreateSettles(d) ==
    /\ call[d].pc = "attCreate"
    /\ \E out \in Outcomes :
         IF out # "ok" THEN Stepped(d, Failure(call[d], out)) /\ UNCHANGED drive
         ELSE /\ Len(drive) < MaxObjects
              /\ drive' = Append(drive, Obj(AttachmentsName, call[d].folderId, EmptyContent))
              /\ Stepped(d, ApiRequest(d, [call[d] EXCEPT !.parentId = Len(drive) + 1], "domSearch"))
    /\ UNCHANGED <<cache, prevPush>>

\* getOrCreateAttachmentsFolder(): the search for the domain's subfolder answers
DomSearchSettles(d) ==
    /\ call[d].pc = "domSearch"
    /\ \E out \in Outcomes :
         IF out # "ok" THEN Stepped(d, Failure(call[d], out)) /\ UNCHANGED cache
         ELSE LET found == Matches(drive, DomainName, call[d].parentId) IN
              IF found # {}
              THEN \E i \in found :
                     /\ cache' = [cache EXCEPT ![d].attachmentsFolderId = i, ![d].attStale = call[d].old]
                     /\ Stepped(d, UseAttachments(d, call[d], i))
              ELSE Stepped(d, ApiRequest(d, call[d], "domCreate")) /\ UNCHANGED cache
    /\ UNCHANGED <<drive, prevPush>>

\* getOrCreateAttachmentsFolder(): the domain's subfolder is created
DomCreateSettles(d) ==
    /\ call[d].pc = "domCreate"
    /\ \E out \in Outcomes :
         IF out # "ok" THEN Stepped(d, Failure(call[d], out)) /\ UNCHANGED <<cache, drive>>
         ELSE /\ Len(drive) < MaxObjects
              /\ drive' = Append(drive, Obj(DomainName, call[d].parentId, EmptyContent))
              /\ cache' = [cache EXCEPT ![d].attachmentsFolderId = Len(drive) + 1,
                                        ![d].attStale = call[d].old]
              /\ Stepped(d, UseAttachments(d, [call[d] EXCEPT !.created = TRUE], Len(drive) + 1))
    /\ UNCHANGED prevPush

\* uploadAttachment(): the POST answers; return result.id
AttUploadSettles(d) ==
    /\ call[d].pc = "attUpload"
    /\ \E out \in (IF call[d].sentToken THEN Outcomes ELSE {"notOk", "transport"}) :
         IF out = "ok"
         THEN /\ Len(drive) < MaxObjects
              /\ drive' = Append(drive, Obj(AttachmentFile, call[d].id, EmptyContent))
              /\ Stepped(d, Return(call[d], NullSnap, 0, Len(drive) + 1))
         ELSE /\ Stepped(d, Throw([call[d] EXCEPT !.failed = "attUpload"],
                                  IF out = "notOk" THEN MsgUploadAttachment ELSE MsgTransport))
              /\ UNCHANGED drive
    /\ UNCHANGED <<cache, prevPush>>

\* listAttachments(): the listing answers
AttListSettles(d) ==
    /\ call[d].pc = "attList"
    /\ \E out \in Outcomes :
         IF out # "ok" THEN Stepped(d, Failure(call[d], out))
         ELSE Stepped(d, Return(call[d], NullSnap, 0,
                                Cardinality(Matches(drive, AttachmentFile, call[d].id))))
    /\ UNCHANGED <<cache, drive, prevPush>>

\* downloadAttachment(): the download answers
AttDownloadSettles(d) ==
    /\ call[d].pc = "attDownload"
    /\ \E out \in (IF call[d].sentToken /\ drive[call[d].rid].name = AttachmentFile
                   THEN Outcomes ELSE {"notOk", "transport"}) :
         IF out = "ok" THEN Stepped(d, Return(call[d], NullSnap, 0, call[d].rid))
         ELSE Stepped(d, Throw([call[d] EXCEPT !.failed = "attDownload"],
                               IF out = "notOk" THEN MsgDownloadAttachment ELSE MsgTransport))
    /\ UNCHANGED <<cache, drive, prevPush>>

\* deleteAttachment(): the DELETE answers
AttDeleteSettles(d) ==
    /\ call[d].pc = "attDelete"
    /\ \E out \in (IF drive[call[d].rid].name = AttachmentFile THEN Outcomes ELSE {"notOk", "transport"}) :
         IF out = "ok"
         THEN /\ drive' = [drive EXCEPT ![call[d].rid].name = Trashed]
              /\ Stepped(d, Return(call[d], NullSnap, 0, 0))
         ELSE Stepped(d, Failure(call[d], out)) /\ UNCHANGED drive
    /\ UNCHANGED <<cache, prevPush>>

\* fetchDomainData(): the download answers; return response, or null from catch
DomainFetchSettles(d) ==
    /\ call[d].pc = "domainFetch"
    /\ \E out \in Outcomes :
         LET body == drive[call[d].rid].content
             r == FetchResult(ParseBody(body))
         IN  IF out # "ok"
             THEN Stepped(d, Return([call[d] EXCEPT !.failed = "domainFetch"], NullSnap, 0, 0))
             ELSE Stepped(d, Return([call[d] EXCEPT !.seen = body], r.data, r.lastModified, 0))
    /\ UNCHANGED <<cache, drive, prevPush>>

\* listAllDomainFiles(): the listing answers
DomainListSettles(d) ==
    /\ call[d].pc = "domainList"
    /\ \E out \in Outcomes :
         IF out # "ok" THEN Stepped(d, Failure(call[d], out))
         ELSE Stepped(d, Return(call[d], NullSnap, 0,
                                Cardinality(Matches(drive, DataFile, call[d].folderId))))
    /\ UNCHANGED <<cache, drive, prevPush>>

\* the folder changes, or the token goes, while a call is in flight
Overtaken(o) == IF InFlight(o) THEN [o EXCEPT !.old = TRUE] ELSE o
Unauthorized(o) == IF InFlight(o) THEN [o EXCEPT !.lostToken = TRUE] ELSE o

\* one more change of token or folder
Changed(d) == opCount[d] < MaxOps /\ opCount' = [opCount EXCEPT ![d] = @ + 1]

\* provider.disconnect(): logout('google'); fileId = null; attachmentsFolderId = null
ProviderDisconnect(d) ==
    /\ connected[d]
    /\ connected' = [connected EXCEPT ![d] = FALSE]
    /\ cache' = [cache EXCEPT ![d] = NoCache]
    /\ call' = [call EXCEPT ![d] = Unauthorized(@)]
    /\ prevPush' = [prevPush EXCEPT ![d] = NoPrior]
    /\ tokenStore' = RemoveItem(tokenStore, "google", NoToken)
    /\ oauthStore' = RemoveItem(oauthStore, "google", NoSession)
    /\ UNCHANGED <<engineVars, mergeVars, nameVars, listenVars, dbVars, active, scenario, wiring, local, remote>>
    /\ UNCHANGED <<clock, authSeq, cb, exchanges, lastCall>>
    /\ UNCHANGED <<folder, now, savedFolder, drive>>
    /\ Changed(d)

\* provider.selectFolder() when the picker returns a folder: saveFolder(domain,
\* folder); fileId = null; attachmentsFolderId = null.  pickFolder needs a token.
ProviderSelectFolder(d, f) ==
    /\ connected[d]
    /\ savedFolder' = [savedFolder EXCEPT ![d] = f]
    /\ folder' = [folder EXCEPT ![d] = TRUE]
    /\ cache' = [cache EXCEPT ![d] = NoCache]
    /\ call' = [call EXCEPT ![d] = IF f # savedFolder[d] THEN Overtaken(@) ELSE @]
    /\ prevPush' = [prevPush EXCEPT ![d] = NoPrior]
    /\ UNCHANGED <<notProvider, connected, now, drive>>
    /\ Changed(d)

\* provider.removeFolder(): clearFolder(domain); fileId = null; attachmentsFolderId = null
ProviderRemoveFolder(d) ==
    /\ savedFolder[d] # 0
    /\ savedFolder' = [savedFolder EXCEPT ![d] = 0]
    /\ folder' = [folder EXCEPT ![d] = FALSE]
    /\ cache' = [cache EXCEPT ![d] = NoCache]
    /\ call' = [call EXCEPT ![d] = Overtaken(@)]
    /\ prevPush' = [prevPush EXCEPT ![d] = NoPrior]
    /\ UNCHANGED <<notProvider, connected, now, drive>>
    /\ Changed(d)

\* the stored token comes within five minutes of its expiry: getToken() gives
\* null from now on; the provider's closure is not told
TokenExpires(d) ==
    /\ connected[d]
    /\ connected' = [connected EXCEPT ![d] = FALSE]
    /\ call' = [call EXCEPT ![d] = Unauthorized(@)]
    /\ UNCHANGED <<notProvider, folder, now, savedFolder, cache, drive, prevPush>>
    /\ Changed(d)

\* connect() and the OAuth redirect back: the page is loaded anew, so the
\* provider is created again with an empty cache
Reconnect(d) ==
    /\ ~connected[d] /\ ~InFlight(call[d])
    /\ connected' = [connected EXCEPT ![d] = TRUE]
    /\ cache' = [cache EXCEPT ![d] = NoCache]
    /\ prevPush' = [prevPush EXCEPT ![d] = NoPrior]
    /\ UNCHANGED <<notProvider, folder, now, savedFolder, drive, call>>
    /\ Changed(d)

\* the wall clock of the provider's installation; push() alone reads it, so
\* only the time that passes after a push is told apart
ProviderTick ==
    /\ now < MaxNow
    /\ \E d \in Devices : prevPush[d].has
    /\ now' = now + 1
    /\ UNCHANGED <<notProvider, connected, folder, savedFolder, cache, drive, call, opCount, prevPush>>

\* createGoogleDriveProvider(config): fileId = null, attachmentsFolderId = null;
\* the drive holds the two folders
DriveIdle ==
    /\ savedFolder = [d \in Devices |-> 0]
    /\ cache = [d \in Devices |-> NoCache]
    /\ drive = <<Obj(RootFolder, 0, EmptyContent), Obj(RootFolder, 0, EmptyContent)>>
    /\ call = [d \in Devices |-> NoOp]
    /\ opCount = [d \in Devices |-> 0]
    /\ prevPush = [d \in Devices |-> NoPrior]

ExtIdle == AuthIdle /\ DriveIdle /\ NamesIdle /\ ListenIdle /\ DbIdle

\* ---------------------------------------------------------------- scenarios
Scenarios == {"twoDevices", "conflict", "items", "scalar", "seneschal"}
ScenarioWiring(sc) == IF sc = "seneschal" THEN "seneschal" ELSE "replace"
ScenarioLocal(sc) ==
    CASE sc = "twoDevices" -> [d \in Devices |-> IF d = "A" THEN ArraySnap(<<Rec("r1", "T1", "a")>>)
                                                 ELSE ArraySnap(<<Rec("r2", "T2", "b")>>)]
      [] sc = "conflict" -> [d \in Devices |-> IF d = "A" THEN ArraySnap(<<Rec("r1", "T2", "a")>>)
                                               ELSE ArraySnap(<<Rec("r1", "T1", "b")>>)]
      [] sc = "items" -> [d \in Devices |-> IF d = "A" THEN ItemsSnap(<<Rec("r1", "T1", "a")>>, "", "m1")
                                            ELSE ItemsSnap(<<Rec("r2", "T1", "b")>>, "", "m2")]
      [] sc = "scalar" -> [d \in Devices |-> IF d = "A" THEN ObjectSnap("T1", "m1")
                                             ELSE ObjectSnap("T2", "m2")]
      [] sc = "seneschal" -> [d \in Devices |-> IF d = "A" THEN ArraySnap(<<Rec("r1", "T1", "a")>>)
                                                ELSE ArraySnap(<<Rec("r2", "T2", "b")>>)]

MergeIdle ==
    /\ mLocal = NullSnap /\ mRemote = NullSnap
    /\ mOut = RemoteAbsent(NullSnap) /\ mOut2 = RemoteAbsent(NullSnap)
    /\ mPhase = "off"

\* createSyncEngine(config): status = IDLE, listeners = [], lastError = null
\* the initial status with a bug: an engine is created as if a cycle were running
InitialStatusSyncing == SYNCING
\* let status = SyncStatus.IDLE
InitialStatus == IDLE
EngineInit ==
    /\ status = [d \in Devices |-> InitialStatus]
    /\ lastError = [d \in Devices |-> Null]
    /\ listeners = [d \in Devices |-> <<>>]
    /\ lastSync = [d \in Devices |-> 0]
    /\ pc = [d \in Devices |-> "none"]
    /\ localData = [d \in Devices |-> NullSnap]
    /\ remoteData = [d \in Devices |-> NullSnap]
    /\ merged = [d \in Devices |-> RemoteAbsent(NullSnap)]
    /\ ret = [d \in Devices |-> NoRet]
    /\ early = [d \in Devices |-> NoRet]
    /\ trace = [d \in Devices |-> <<>>]
    /\ pushed = [d \in Devices |-> NullSnap]
    /\ calls = [d \in Devices |-> 0]
    /\ inflight = [d \in Devices |-> 0]
    /\ hist = <<>>

\* the document another installation of the same domain has pushed earlier
OtherDoc(sc) == [exists |-> TRUE, lastModified |-> 1,
                 data |-> GetLocalData(ScenarioWiring(sc), ScenarioLocal(sc)["B"], 1)]

\* one engine (device A) with its listeners, its provider and every failure of
\* its collaborators; the remote starts absent or as left by another installation
Init ==
    /\ EngineInit
    /\ active = {"A"}
    /\ scenario \in Scenarios
    /\ wiring = [d \in Devices |-> ScenarioWiring(scenario)]
    /\ local = ScenarioLocal(scenario)
    /\ connected = [d \in Devices |-> FALSE]
    /\ folder = [d \in Devices |-> FALSE]
    /\ remote \in {NoRemote, OtherDoc(scenario)}
    /\ now = 1
    /\ MergeIdle
    /\ ExtIdle

Next ==
    \/ \E d \in active : SyncAlreadyInProgress(d)
    \/ \E d \in active : SyncNotConnected(d)
    \/ \E d \in active : SyncNoFolder(d)
    \/ \E d \in active : SyncStart(d)
    \/ \E d \in active : GetLocalDataSettles(d)
    \/ \E d \in active : ProviderFetchSettles(d)
    \/ \E d \in active : SetLocalDataSettles(d)
    \/ \E d \in active : ProviderPushSettles(d)
    \/ \E d \in active, l \in ListenerIds : OnStatusChange(d, l)
    \/ \E d \in active : Connect(d)
    \/ \E d \in active : Disconnect(d)
    \/ \E d \in active : SelectFolder(d)
    \/ \E d \in active : RemoveFolder(d)
    \/ Tick

Spec == Init /\ [][Next]_vars

\* two installations of one domain on one folder, both connected, no listeners
InitDevices ==
    /\ EngineInit
    /\ active = Devices
    /\ scenario \in Scenarios
    /\ wiring = [d \in Devices |-> ScenarioWiring(scenario)]
    /\ local = ScenarioLocal(scenario)
    /\ connected = [d \in Devices |-> TRUE]
    /\ folder = [d \in Devices |-> TRUE]
    /\ remote = NoRemote
    /\ now = 1
    /\ MergeIdle
    /\ ExtIdle

CallsMade == calls["A"] + calls["B"]
NextDevices ==
    \/ \E d \in active : CallsMade < MaxDeviceCalls /\ SyncAlreadyInProgress(d)
    \/ \E d \in active : CallsMade < MaxDeviceCalls /\ SyncStart(d)
    \/ \E d \in active : GetLocalDataSettles(d)
    \/ \E d \in active : ProviderFetchSettles(d)
    \/ \E d \in active : SetLocalDataSettles(d)
    \/ \E d \in active : ProviderPushSettles(d)

SpecDevices == InitDevices /\ [][NextDevices]_vars

\* the application deletes a record of its local sequence between two cycles
MaxDeletes == 2
Deletions == Len(SelectSeq(hist, LAMBDA e : e[2] \in Ids))
RemoveAt(l, i) == SubSeq(l, 1, i - 1) \o SubSeq(l, i + 1, Len(l))
DeleteRecord(d) ==
    /\ pc[d] = "none" /\ local[d].kind = "array"
    /\ Deletions < MaxDeletes
    /\ \E i \in 1..Len(local[d].list) :
         /\ local' = [local EXCEPT ![d] = ArraySnap(RemoveAt(local[d].list, i))]
         /\ hist' = Append(hist, <<d, local[d].list[i].id>>)
    /\ UNCHANGED <<status, lastError, listeners, lastSync, pc, localData, remoteData,
                   merged, ret, early, trace, pushed, calls, inflight>>
    /\ UNCHANGED <<active, scenario, wiring, connected, folder, remote, now, mergeVars, extVars>>

\* one installation holding a record sequence, connected, that syncs and
\* deletes records; the remote starts absent or as left by another installation
InitDelete ==
    /\ EngineInit
    /\ active = {"A"}
    /\ scenario \in {"twoDevices", "conflict"}
    /\ wiring = [d \in Devices |-> ScenarioWiring(scenario)]
    /\ local = ScenarioLocal(scenario)
    /\ connected = [d \in Devices |-> TRUE]
    /\ folder = [d \in Devices |-> TRUE]
    /\ remote \in {NoRemote, OtherDoc(scenario)}
    /\ now = 1
    /\ MergeIdle
    /\ ExtIdle

NextDelete ==
    \/ \E d \in active : CallsMade < MaxDeviceCalls /\ SyncStart(d)
    \/ \E d \in active : GetLocalDataSettles(d)
    \/ \E d \in active : ProviderFetchSettles(d)
    \/ \E d \in active : SetLocalDataSettles(d)
    \/ \E d \in active : ProviderPushSettles(d)
    \/ \E d \in active : DeleteRecord(d)

SpecDelete == InitDelete /\ [][NextDelete]_vars

\* ------------------------------------------------ the merge functions alone
\* record sequences as a store or a Map hands them out: no id twice
MergeIds == {"r1", "r2", "r3"}
MergeTimeStamps == {"", "T0", "T1"}
MergeRecords == {Rec(i, u, t) : i \in MergeIds, u \in MergeTimeStamps, t \in Titles}
RecordSeqs(n) == {s \in UNION {[1..k -> MergeRecords] : k \in 0..n} :
                    \A i, j \in 1..Len(s) : i # j => s[i].id # s[j].id}
MergeInputs ==
    {NullSnap}
    \cup {ArraySnap(l) : l \in RecordSeqs(MaxLen)}
    \cup {ItemsSnap(l, u, m) : l \in RecordSeqs(1), u \in {"", "T1"}, m \in Metas}
    \cup {ObjectSnap(u, m) : u \in MergeTimeStamps, m \in Metas}

InitMerge ==
    /\ EngineInit
    /\ active = {}
    /\ scenario = "twoDevices"
    /\ wiring = [d \in Devices |-> ScenarioWiring(scenario)]
    /\ local = ScenarioLocal(scenario)
    /\ connected = [d \in Devices |-> FALSE]
    /\ folder = [d \in Devices |-> FALSE]
    /\ remote = NoRemote
    /\ now = 1
    /\ mLocal \in MergeInputs
    /\ mRemote \in MergeInputs
    /\ mOut = RemoteAbsent(NullSnap) /\ mOut2 = RemoteAbsent(NullSnap)
    /\ mPhase = "in"
    /\ ExtIdle

\* merged = mergeData(localData, remoteData, lastSync)
Reconcile ==
    /\ mPhase = "in"
    /\ mOut' = mergeData(mLocal, mRemote)
    /\ mPhase' = "once"
    /\ UNCHANGED <<engineVars, envVars, extVars, mLocal, mRemote, mOut2>>

\* the merged snapshot reconciled against the same remote once more
ReReconcile ==
    /\ mPhase = "once"
    /\ mOut2' = mergeData(mOut.local, mRemote)
    /\ mPhase' = "twice"
    /\ UNCHANGED <<engineVars, envVars, extVars, mLocal, mRemote, mOut>>

NextMerge == Reconcile \/ ReReconcile

SpecMerge == InitMerge /\ [][NextMerge]_vars

\* ------------------------------------------------------- the OAuth module alone
InitAuth ==
    /\ EngineInit
    /\ active = {}
    /\ scenario = "twoDevices"
    /\ wiring = [d \in Devices |-> ScenarioWiring(scenario)]
    /\ local = ScenarioLocal(scenario)
    /\ connected = [d \in Devices |-> FALSE]
    /\ folder = [d \in Devices |-> FALSE]
    /\ remote = NoRemote
    /\ now = 1
    /\ MergeIdle
    /\ ExtIdle

NextAuth ==
    \/ \E p \in Providers : StartAuth(p)
    \/ \E p \in Providers, url \in CallbackUrls : HandleCallback(p, url)
    \/ \E p \in Providers : TokenExchangeSettles(p)
    \/ \E p \in Providers : GetToken(p)
    \/ \E p \in Providers : Logout(p)
    \/ ClockTick

SpecAuth == InitAuth /\ [][NextAuth]_vars

\* ------------------------------------------------- one provider and the drive
\* one installation: its token, its saved folder, and a drive in which folder 1
\* holds no data file yet or one left by earlier use
InitProvider ==
    /\ EngineInit
    /\ active = {"A"}
    /\ scenario = "twoDevices"
    /\ wiring = [d \in Devices |-> ScenarioWiring(scenario)]
    /\ local = ScenarioLocal(scenario)
    /\ connected \in {[d \in Devices |-> d = "A" /\ c] : c \in BOOLEAN}
    /\ \E f \in {0, 1} :
         /\ savedFolder = [d \in Devices |-> IF d = "A" THEN f ELSE 0]
         /\ folder = [d \in Devices |-> d = "A" /\ f # 0]
    /\ remote = NoRemote
    /\ now = 1
    /\ MergeIdle
    /\ AuthIdle
    /\ NamesIdle
    /\ ListenIdle
    /\ DbIdle
    /\ cache = [d \in Devices |-> NoCache]
    /\ \E k \in BodyKinds \cup {"absent"} :
         drive = <<Obj(RootFolder, 0, EmptyContent), Obj(RootFolder, 0, EmptyContent)>>
                 \o (IF k = "absent" THEN <<>>
                     ELSE <<Obj(DataFile, 1, Content(k, IF k = "doc" THEN ArraySnap(<<Rec("r2", "T2", "b")>>)
                                                                    ELSE NullSnap,
                                                     IF k = "doc" THEN 1 ELSE 0, IF k = "doc" THEN 1 ELSE 0))>>)
    /\ call = [d \in Devices |-> NoOp]
    /\ opCount = [d \in Devices |-> 0]
    /\ prevPush = [d \in Devices |-> NoPrior]

NextProvider ==
    \/ \E d \in active : Fetch(d)
    \/ \E d \in active, p \in PushPayloads : Push(d, p)
    \/ \E d \in active : UploadAttachment(d)
    \/ \E d \in active : ListAttachments(d)
    \/ \E d \in active, rid \in 1..Len(drive) : DownloadAttachment(d, rid)
    \/ \E d \in active, rid \in 1..Len(drive) : DeleteAttachment(d, rid)
    \/ \E d \in active : ListAllDomainFiles(d)
    \/ \E d \in active, rid \in 1..Len(drive) : FetchDomainData(d, rid)
    \/ \E d \in active : SearchSettles(d)
    \/ \E d \in active : CreateSettles(d)
    \/ \E d \in active : DownloadSettles(d)
    \/ \E d \in active : UploadSettles(d)
    \/ \E d \in active : AttSearchSettles(d)
    \/ \E d \in active : AttCreateSettles(d)
    \/ \E d \in active : DomSearchSettles(d)
    \/ \E d \in active : DomCreateSettles(d)
    \/ \E d \in active : AttUploadSettles(d)
    \/ \E d \in active : AttListSettles(d)
    \/ \E d \in active : AttDownloadSettles(d)
    \/ \E d \in active : AttDeleteSettles(d)
    \/ \E d \in active : DomainListSettles(d)
    \/ \E d \in active : DomainFetchSettles(d)
    \/ \E d \in active : ProviderDisconnect(d)
    \/ \E d \in active, f \in FolderIds : ProviderSelectFolder(d, f)
    \/ \E d \in active : ProviderRemoveFolder(d)
    \/ \E d \in active : TokenExpires(d)
    \/ \E d \in active : Reconnect(d)
    \/ ProviderTick

SpecProvider == InitProvider /\ [][NextProvider]_vars

\* ------------------------------------------- two providers on the same folder
\* two installations of the same domain, each with a token, both configured
\* with folder 1, which holds no data file yet or the one an earlier push left
InitShared ==
    /\ EngineInit
    /\ active = {"A", "B"}
    /\ scenario = "twoDevices"
    /\ wiring = [d \in Devices |-> ScenarioWiring(scenario)]
    /\ local = ScenarioLocal(scenario)
    /\ connected = [d \in Devices |-> TRUE]
    /\ savedFolder = [d \in Devices |-> 1]
    /\ folder = [d \in Devices |-> TRUE]
    /\ remote = NoRemote
    /\ now = 1
    /\ MergeIdle
    /\ AuthIdle
    /\ NamesIdle
    /\ ListenIdle
    /\ DbIdle
    /\ cache = [d \in Devices |-> NoCache]
    /\ \E present \in BOOLEAN :
         drive = <<Obj(RootFolder, 0, EmptyContent), Obj(RootFolder, 0, EmptyContent)>>
                 \o (IF present
                     THEN <<Obj(DataFile, 1, Content("doc", ArraySnap(<<Rec("r2", "T2", "b")>>), 1, 1))>>
                     ELSE <<>>)
    /\ call = [d \in Devices |-> NoOp]
    /\ opCount = [d \in Devices |-> 0]
    /\ prevPush = [d \in Devices |-> NoPrior]

NextShared ==
    \/ \E d \in active : Fetch(d)
    \/ \E d \in active, p \in PushPayloads : Push(d, p)
    \/ \E d \in active : SearchSettles(d)
    \/ \E d \in active : CreateSettles(d)
    \/ \E d \in active : DownloadSettles(d)
    \/ \E d \in active : UploadSettles(d)
    \/ ProviderTick

SpecShared == InitShared /\ [][NextShared]_vars

\* ------------------------------------------------------- attachment names
InitNames ==
    /\ EngineInit
    /\ active = {}
    /\ scenario = "twoDevices"
    /\ wiring = [d \in Devices |-> ScenarioWiring(scenario)]
    /\ local = ScenarioLocal(scenario)
    /\ connected = [d \in Devices |-> FALSE]
    /\ folder = [d \in Devices |-> FALSE]
    /\ remote = NoRemote
    /\ now = 1
    /\ MergeIdle
    /\ ExtIdle

NextNames ==
    \/ \E id \in AttachmentIds, filename \in Filenames : NameAttachment(id, filename)
    \/ ListName

SpecNames == InitNames /\ [][NextNames]_vars

\* ------------------------------------------------- listeners of one engine
InitListeners ==
    /\ EngineInit
    /\ active = {"A"}
    /\ scenario = "twoDevices"
    /\ wiring = [d \in Devices |-> ScenarioWiring(scenario)]
    /\ local = ScenarioLocal(scenario)
    /\ connected = [d \in Devices |-> d = "A"]
    /\ folder = [d \in Devices |-> d = "A"]
    /\ remote = NoRemote
    /\ now = 1
    /\ MergeIdle
    /\ ExtIdle

NextListeners ==
    \/ \E d \in active, l \in Subscribers : Subscribe(d, l)
    \/ \E d \in active, l \in Subscribers : Unsubscribe(d, l)
    \/ \E d \in active : NotifySyncing(d)
    \/ \E d \in active : NotifyIdle(d)
    \/ \E d \in active : NotifyError(d)
    \/ \E d \in active : NotifyCaught(d)
    \/ \E d \in active : ListenerCalled(d)
    \/ \E d \in active : ForEachReturns(d)
    \/ \E d \in active : ListenerThrew(d)
    \/ \E d \in active : GetStatus(d)
    \/ \E d \in active : GetError(d)
    \/ \E d \in active : GetLastSync(d)
    \/ \E d \in active : CanSync(d)

SpecListeners == InitListeners /\ [][NextListeners]_vars

\* ------------------------------------------------ logging out of a provider
\* an installation that is signed in to Google and has found its data file in
\* folder 1, or has not looked for it yet
InitLogout ==
    /\ EngineInit
    /\ active = {"A"}
    /\ scenario = "twoDevices"
    /\ wiring = [d \in Devices |-> ScenarioWiring(scenario)]
    /\ local = ScenarioLocal(scenario)
    /\ connected = [d \in Devices |-> d = "A"]
    /\ savedFolder = [d \in Devices |-> IF d = "A" THEN 1 ELSE 0]
    /\ folder = [d \in Devices |-> d = "A"]
    /\ remote = NoRemote
    /\ now = 1
    /\ MergeIdle
    /\ NamesIdle
    /\ ListenIdle
    /\ DbIdle
    /\ oauthStore = [p \in Providers |-> NoSession]
    /\ tokenStore = [p \in Providers |-> IF p = "google" THEN saveToken(AccessToken(0), "", 0, 0)
                                          ELSE NoToken]
    /\ clock = 0 /\ authSeq = 0 /\ exchanges = 0
    /\ cb = [p \in Providers |-> NoCallback]
    /\ lastCall = Call("none", "", NoUrl, RetNone, "", NoSession)
    /\ drive = <<Obj(RootFolder, 0, EmptyContent), Obj(RootFolder, 0, EmptyContent),
                 Obj(DataFile, 1, EmptyContent)>>
    /\ \E found \in BOOLEAN :
         cache = [d \in Devices |-> IF d = "A" /\ found THEN [NoCache EXCEPT !.fileId = 3] ELSE NoCache]
    /\ call = [d \in Devices |-> NoOp]
    /\ opCount = [d \in Devices |-> 0]
    /\ prevPush = [d \in Devices |-> NoPrior]

NextLogout ==
    \/ \E p \in Providers : StartAuth(p)
    \/ \E p \in Providers, url \in CallbackUrls : HandleCallback(p, url)
    \/ \E p \in Providers : TokenExchangeSettles(p)
    \/ \E p \in Providers : GetToken(p)
    \/ \E p \in Providers : Logout(p)
    \/ \E d \in active : ProviderDisconnect(d)

SpecLogout == InitLogout /\ [][NextLogout]_vars

\* the OAuth module with the clock standing still: sessions are started,
\* redeemed, replayed and logged out within their validity
NextReplay ==
    \/ \E p \in Providers : StartAuth(p)
    \/ \E p \in Providers, url \in CallbackUrls : HandleCallback(p, url)
    \/ \E p \in Providers : TokenExchangeSettles(p)
    \/ \E p \in Providers : Logout(p)
SpecReplay == InitAuth /\ [][NextReplay]_vars

\* startAuth and handleCallback alone: sessions are only ever replaced or redeemed
NextReissue ==
    \/ \E p \in Providers : StartAuth(p)
    \/ \E p \in Providers, url \in CallbackUrls : HandleCallback(p, url)
    \/ \E p \in Providers : TokenExchangeSettles(p)
SpecReissue == InitAuth /\ [][NextReissue]_vars

\* ------------------------------------------------------- the database alone
DbRest ==
    /\ EngineInit
    /\ active = {}
    /\ scenario = "twoDevices"
    /\ wiring = [d \in Devices |-> ScenarioWiring(scenario)]
    /\ local = ScenarioLocal(scenario)
    /\ connected = [d \in Devices |-> FALSE]
    /\ folder = [d \in Devices |-> FALSE]
    /\ remote = NoRemote
    /\ now = 1
    /\ MergeIdle
    /\ AuthIdle /\ DriveIdle /\ NamesIdle /\ ListenIdle

\* a new database, and ideas created, edited and deleted
InitTags == DbRest /\ DbIdle
NextTags ==
    \/ \E tg \in TagLists : CreateIdea(tg)
    \/ \E id \in DbIds, withTags \in BOOLEAN, tg \in TagLists : UpdateIdea(id, withTags, tg)
    \/ \E id \in DbIds : DeleteIdea(id)
SpecTags == InitTags /\ [][NextTags]_vars

\* a database holding created ideas, and backups imported and remote data merged
InitBackup ==
    /\ DbRest
    /\ ideasStore \in CreatedStores
    /\ tagsStore = TagsOfIdeas(ideasStore)
    /\ dbCall = NoDbCall
NextBackup ==
    \/ \E data \in Backups : ImportData(data)
    \/ \E data \in MergeArguments : DbMergeData(data)
SpecBackup == InitBackup /\ [][NextBackup]_vars

\* ------------------------------------------------------------------ claims
IdsOf(l) == {l[i].id : i \in 1..Len(l)}
CopyOf(l, id) == l[CHOOSE i \in 1..Len(l) : l[i].id = id]
RecordsOf(l) == {l[i] : i \in 1..Len(l)}
\* a timestamp as the claims read it: a missing updatedAt is epoch 0
Epoch(u) == IF u = "T1" THEN 1 ELSE IF u = "T2" THEN 2 ELSE 0
CountOp(tr, op) == Cardinality({i \in 1..Len(tr) : tr[i].op = op})

\* C1: once a sync() call that set status to Syncing has settled, status is
\* Idle or Error, never still Syncing, whatever returned or threw on the way.
C1_NeverLeftSyncing == \A d \in Devices : inflight[d] = 0 => status[d] # SYNCING

\* C2: sync() never rejects; a failed cycle resolves to {success:false, error}
\* with status Error and lastError the error's message, and the listeners are
\* told of the Error status.
C2_SyncNeverRejects == \A d \in Devices :
    /\ ret[d].kind # "rejected"
    /\ (ret[d].kind = "resolved" /\ ~ret[d].success) =>
         /\ status[d] = ERROR
         /\ lastError[d] = ret[d].error
         /\ (trace[d] # <<>> /\ trace[d][Len(trace[d])].op = "notify") =>
              (trace[d][Len(trace[d])].st = ERROR /\ trace[d][Len(trace[d])].err = ret[d].error)

\* C3: at most one cycle is in flight per engine, and a sync() call made while
\* status is Syncing returns {success:false, 'already in progress'} at once and
\* changes nothing: no status, lastError, listener call, local or remote access.
C3_SecondSyncRefused ==
    /\ [](\A d \in Devices : inflight[d] <= 1)
    /\ [][\A d \in Devices : (status[d] = SYNCING /\ calls'[d] # calls[d]) =>
            /\ early'[d] = Resolved(FALSE, MsgBusy)
            /\ status'[d] = status[d] /\ lastError'[d] = lastError[d]
            /\ trace'[d] = trace[d] /\ pc'[d] = pc[d] /\ ret'[d] = ret[d]
            /\ inflight'[d] = inflight[d] /\ lastSync'[d] = lastSync[d]
            /\ local' = local /\ remote' = remote]_vars
\* a call was refused while the first cycle waits for the provider
C3_Witness == \E d \in Devices :
    /\ early[d] = Resolved(FALSE, MsgBusy)
    /\ inflight[d] = 1 /\ pc[d] = "fetch" /\ status[d] = SYNCING

SameShape(a, b) == a.kind = b.kind /\ a.kind \in {"array", "items", "object"}
C5_ReconcileIdempotent ==
    (mPhase = "twice" /\ SameShape(mLocal, mRemote)) => mOut2.local = mOut.local
\* a merge that took from both sides
C5_Witness ==
    /\ mPhase = "twice" /\ mLocal.kind = "array" /\ mRemote.kind = "array"
    /\ mOut.local # mLocal /\ mOut.local # mRemote
    /\ Len(mOut.local.list) = 3
    /\ \E i \in 1..Len(mLocal.list) : mLocal.list[i] \notin RecordsOf(mOut.local.list)

\* C6: with the remote absent the result is the local snapshot itself and
\* hasLocalChanges is true; otherwise, with the local absent, the result is the
\* remote snapshot itself and hasLocalChanges is false.
C6_AbsentSides ==
    mPhase # "in" =>
      /\ mRemote.kind = "null" => mOut = [local |-> mLocal, hasLocalChanges |-> TRUE]
      /\ (mRemote.kind # "null" /\ mLocal.kind = "null") =>
           mOut = [local |-> mRemote, hasLocalChanges |-> FALSE]
C6_Witness ==
    /\ mPhase = "once" /\ mRemote.kind = "null"
    /\ mLocal.kind = "array" /\ Len(mLocal.list) = 2

\* the two-devices scenario: B ran one cycle to success, then A ran one
BThenA == <<<<"B", "start">>, <<"B", "ok">>, <<"A", "start">>, <<"A", "ok">>>>
BThenAThenB == BThenA \o <<<<"B", "start">>, <<"B", "ok">>>>
R1 == Rec("r1", "T1", "a")
R2 == Rec("r2", "T2", "b")

\* C7 as stated: after B's cycle and then A's cycle against the document B
\* pushed, the remote document and the local data of both devices hold exactly
\* {r1, r2}.
C7_AllThreeConverge ==
    (scenario = "twoDevices" /\ hist = BThenA /\ remoteData["A"] = ArraySnap(<<R2>>)) =>
      /\ RecordsOf(remote.data.list) = {R1, R2}
      /\ RecordsOf(local["A"].list) = {R1, R2}
      /\ RecordsOf(local["B"].list) = {R1, R2}
\* C7 amended: after B's cycle and then A's cycle against the document B pushed,
\* the remote document and A's local data hold exactly {r1, r2} while B's local
\* data still holds only r2; B holds {r1, r2} too once it has completed one
\* further cycle against the document A pushed.
C7_ConvergeAfterNextSync ==
    /\ (scenario = "twoDevices" /\ hist = BThenA /\ remoteData["A"] = ArraySnap(<<R2>>)) =>
         /\ remote.data.kind = "array" /\ RecordsOf(remote.data.list) = {R1, R2}
         /\ RecordsOf(local["A"].list) = {R1, R2}
         /\ RecordsOf(local["B"].list) = {R2}
    /\ (/\ scenario = "twoDevices" /\ hist = BThenAThenB
        /\ remoteData["A"] = ArraySnap(<<R2>>) /\ remoteData["B"].kind = "array") =>
         /\ RecordsOf(remote.data.list) = {R1, R2}
         /\ RecordsOf(local["A"].list) = {R1, R2}
         /\ RecordsOf(local["B"].list) = {R1, R2}
C7_Witness ==
    /\ scenario = "twoDevices" /\ hist = BThenAThenB
    /\ remoteData["A"] = ArraySnap(<<R2>>)
    /\ pushed["A"] = ArraySnap(<<R1, R2>>)
    /\ remoteData["B"] = ArraySnap(<<R1, R2>>)

\* C8: with the seneschal wiring, after a successful sync against a non-empty
\* remote document the local idea store holds every idea of that document (the
\* newer updatedAt winning per id) and the remote document holds every idea
\* that existed only locally.
C8_SeneschalSyncMerges == \A d \in active :
    (/\ wiring[d] = "seneschal" /\ pc[d] = "none" /\ ret[d] = Resolved(TRUE, Null)
     /\ remoteData[d].kind = "export") =>
      /\ \A i \in 1..Len(remoteData[d].list) :
           /\ remoteData[d].list[i].id \in IdsOf(local[d].list)
           /\ ~StrGreater(remoteData[d].list[i].updatedAt,
                          CopyOf(local[d].list, remoteData[d].list[i].id).updatedAt)
      /\ \A i \in 1..Len(localData[d].list) :
           localData[d].list[i].id \notin IdsOf(remoteData[d].list) =>
             localData[d].list[i] \in RecordsOf(remote.data.list)

\* C9: when fetch resolves to {data: null} the cycle hands the local snapshot
\* unchanged to setLocalData, pushes exactly once with data equal to that whole
\* snapshot, records a last-sync timestamp and ends with status Idle.
C9_FirstSyncPushesLocal == \A d \in active :
    remoteData[d] = NullSnap =>
      /\ pc[d] \in {"setLocalData", "push"} =>
           merged[d] = [local |-> localData[d], hasLocalChanges |-> TRUE]
      /\ pc[d] = "push" => trace[d][Len(trace[d])] = CallEv("push")
      /\ (pc[d] = "none" /\ ret[d] = Resolved(TRUE, Null)) =>
           /\ CountOp(trace[d], "setLocalData") = 1
           /\ GetLocalData(wiring[d], local[d], localData[d].exportedAt) = localData[d]
           /\ CountOp(trace[d], "push") = 1
           /\ pushed[d] = localData[d]
           /\ CountOp(trace[d], "setLastSync") = 1 /\ lastSync[d] >= 1
           /\ status[d] = IDLE
C9_Witness == \E d \in active :
    /\ pc[d] = "none" /\ ret[d] = Resolved(TRUE, Null) /\ status[d] = IDLE
    /\ remoteData[d] = NullSnap /\ localData[d].kind = "array"
    /\ remote.data = localData[d] /\ pushed[d] = localData[d]

\* C10: a sync() call made while the provider is not connected or no folder is
\* configured returns {success:false, error} and leaves status, lastError and
\* the last-sync value unchanged, calls no listener and touches no local or
\* remote data; the three refusal messages are pairwise distinct.
C10_PreconditionRefusals ==
    /\ [](Cardinality({MsgBusy, MsgNotConnected, MsgNoFolder}) = 3)
    /\ [][\A d \in Devices : (calls'[d] # calls[d] /\ (~connected[d] \/ ~folder[d])) =>
            /\ early'[d] = Resolved(FALSE, IF status[d] = SYNCING THEN MsgBusy
                                           ELSE IF ~connected[d] THEN MsgNotConnected
                                           ELSE MsgNoFolder)
            /\ status'[d] = status[d] /\ lastError'[d] = lastError[d]
            /\ lastSync'[d] = lastSync[d] /\ trace'[d] = trace[d]
            /\ pc'[d] = pc[d] /\ ret'[d] = ret[d]
            /\ local' = local /\ remote' = remote]_vars
\* refused for the missing folder after a failed cycle: Error and its message stay
C10_Witness == \E d \in Devices :
    /\ early[d] = Resolved(FALSE, MsgNoFolder)
    /\ status[d] = ERROR /\ lastError[d] = MsgSetLocal /\ ~folder[d]

\* the saved session of provider p validates a callback carrying state st now
Validates(p, st) ==
    /\ oauthStore[p].has /\ oauthStore[p].state = st
    /\ clock - oauthStore[p].timestamp <= SessionValidity

\* C11: handleCallback persists a token only for a callback whose state equals
\* the state of a saved, unexpired session of that provider.  With no such
\* session it fails with an auth error, sends no token-exchange request and
\* leaves the token store unchanged; with one, and a successful exchange, it
\* returns true and a token record is stored.
C11_CallbackStateCheck ==
    [][\A p \in Providers :
         /\ (lastCall'.op = "handleCallback" /\ lastCall'.p = p
              /\ ~Validates(p, lastCall'.url.state)) =>
               /\ lastCall'.ret \in AuthErrors
               /\ exchanges' = exchanges /\ cb' = cb
               /\ tokenStore' = tokenStore
         /\ (exchanges' # exchanges /\ lastCall'.p = p) =>
               /\ Validates(p, lastCall'.url.state)
               /\ cb'[p] = [pc |-> "exchange", url |-> lastCall'.url,
                            verifier |-> oauthStore[p].verifier]
         /\ (tokenStore'[p] # tokenStore[p] /\ tokenStore'[p].has) =>
               /\ lastCall'.op = "exchangeSettles" /\ lastCall'.p = p
               /\ cb[p].pc = "exchange" /\ lastCall'.net = "ok"
         /\ (lastCall'.op = "exchangeSettles" /\ lastCall'.p = p /\ lastCall'.net = "ok") =>
               /\ lastCall'.ret = RetTrue
               /\ tokenStore'[p].has /\ tokenStore'[p].accessToken # ""
    ]_vars
\* a callback of one provider succeeded while the other provider's session,
\* saved by a later startAuth, is still waiting
C11_Witness == \E p, q \in Providers :
    /\ p # q
    /\ lastCall.op = "exchangeSettles" /\ lastCall.p = p /\ lastCall.ret = RetTrue
    /\ lastCall.url.state = 1
    /\ tokenStore[p].has /\ ~tokenStore[q].has
    /\ oauthStore[q].has /\ oauthStore[q].state = 2

C13_SessionExpires ==
    [][\A p \in Providers :
         /\ (/\ lastCall'.op = "handleCallback" /\ lastCall'.p = p
              /\ oauthStore[p].has /\ clock - oauthStore[p].timestamp > SessionValidity) =>
               /\ lastCall'.ret \in AuthErrors
               /\ tokenStore' = tokenStore /\ exchanges' = exchanges /\ cb' = cb
               /\ (lastCall'.url.code # "" /\ lastCall'.url.state # 0 /\ lastCall'.url.error = "") =>
                    /\ lastCall'.ret = MsgInvalidState
                    /\ oauthStore'[p] = NoSession
         /\ (/\ lastCall'.op = "handleCallback" /\ lastCall'.p = p
              /\ lastCall'.url.code # "" /\ lastCall'.url.error = ""
              /\ Validates(p, lastCall'.url.state)) =>
               /\ lastCall'.ret = RetNone /\ cb'[p].pc = "exchange"
               /\ oauthStore' = oauthStore
    ]_vars
\* a callback with the matching state was refused fifteen minutes after startAuth
C13_Witness == \E p \in Providers :
    /\ lastCall.op = "handleCallback" /\ lastCall.p = p /\ lastCall.ret = MsgInvalidState
    /\ lastCall.saw.has /\ lastCall.saw.state = lastCall.url.state
    /\ clock - lastCall.saw.timestamp > SessionValidity
    /\ oauthStore[p] = NoSession /\ ~tokenStore[p].has

\* ---------------------------------------------------- provider claims (C14..)
RemoteOps == {"fetch", "push", "uploadAttachment", "downloadAttachment", "deleteAttachment",
              "listAttachments", "listAllDomainFiles"}
FolderOps == {"fetch", "push", "uploadAttachment", "listAttachments", "listAllDomainFiles"}
FailedFast(o, msg) == o.pc = "done" /\ o.ret = "error" /\ o.error = msg /\ o.reqs = 0

\* C14: a provider operation that does remote I/O, called while getToken gives
\* no token, fails with the not-authenticated error and sends no request, also
\* when a data-file id or attachments-folder id is cached.  (Calls made with
\* neither token nor folder are left out: C15 names another error for them.)
C14_UnauthenticatedFailsFast ==
    \A d \in Devices :
      (/\ call[d].name \in RemoteOps
       /\ ~call[d].hadToken
       /\ call[d].hadFolder \/ call[d].name \in {"downloadAttachment", "deleteAttachment"})
        => FailedFast(call[d], MsgNotAuthenticated)

\* C15: a folder-dependent provider operation, called while no sync folder is
\* saved, fails with the no-folder error and sends no request.  (Calls made
\* with neither token nor folder are left out: C14 names another error for them.)
C15_NoFolderFails ==
    \A d \in Devices :
      (call[d].name \in FolderOps /\ ~call[d].hadFolder /\ call[d].hadToken)
        => FailedFast(call[d], MsgNoFolderSelected)

\* C16: with a token and a folder throughout, and the lookup requests answered,
\* fetch() does not throw: where it had to create the data file it resolves to
\* {data: null, lastModified: null} and the file is there; where the file's
\* body is empty, not JSON or not an object it resolves to the same; where the
\* body is a document it resolves to the document's data and lastModified.
C16_FetchNoRemoteData ==
    \A d \in Devices :
      LET o == call[d] IN
      (/\ o.name = "fetch" /\ o.pc = "done"
       /\ o.hadToken /\ o.hadFolder /\ ~o.lostToken /\ ~o.old
       /\ o.failed \notin {"search", "create"})
        => /\ o.ret = "ok"
           /\ o.created => /\ o.data = NullSnap /\ o.lastModified = 0
                           /\ Matches(drive, DataFile, o.folderId) # {}
           /\ (o.failed = "" /\ o.seen.kind \in {"empty", "garbage", "scalar"})
                => o.data = NullSnap /\ o.lastModified = 0
           /\ (o.failed = "" /\ o.seen.kind = "doc")
                => o.data = o.seen.data /\ o.lastModified = o.seen.lastModified
C16_Witness ==
    /\ call["A"].name = "fetch" /\ call["A"].pc = "done" /\ call["A"].ret = "ok"
    /\ call["A"].created /\ call["A"].failed = "" /\ call["A"].hadToken /\ call["A"].hadFolder
    /\ ~call["A"].lostToken /\ ~call["A"].old
    /\ call["A"].data = NullSnap /\ call["A"].lastModified = 0

\* C17: a push that follows a successful push of the same payload leaves the
\* remote as the first one left it: the same single data object of the domain,
\* with the same content.
C17_PushIdempotent ==
    \A d \in Devices :
      LET o == call[d] IN
      (/\ o.name = "push" /\ o.pc = "done" /\ o.ret = "ok"
       /\ o.prior.has /\ o.prior.payload = o.payload)
        => /\ o.id = o.prior.id
           /\ drive[o.id].content = o.prior.content
           /\ Cardinality(Matches(drive, DataFile, drive[o.id].parent)) = 1

\* C18: once selectFolder() with another folder or removeFolder() has
\* returned, the cache holds no id stored by a lookup that had started in the
\* folder configured before, and no later operation uses such an id.
C18_CacheInvalidated ==
    \A d \in Devices :
      /\ ~cache[d].fileStale
      /\ ~cache[d].attStale
      /\ ~call[d].usedStale

\* C19: whatever fetch() and push() calls the providers of one domain make on
\* one folder, in whatever order their requests are answered, the folder holds
\* at most one object named '{domain}-data.json', and the providers that have
\* found a data file have found the same one.
C19_OneDataObject ==
    /\ \A f \in FolderIds : Cardinality(Matches(drive, DataFile, f)) <= 1
    /\ \A d1, d2 \in Devices :
         (cache[d1].fileId # 0 /\ cache[d2].fileId # 0) => cache[d1].fileId = cache[d2].fileId

\* C20: the name uploadAttachment gives an object, read back by
\* listAttachments, yields the attachment id and the filename it was made of.
C20_NameRoundTrip ==
    attName.pc = "listed" =>
      /\ attName.listedId = attName.id
      /\ attName.listedFilename = attName.filename

\* C21: fetchDomainData never throws; where the token is missing, or the
\* request gets a non-success status or no response at all, it resolves to null.
C21_FetchDomainDataDegrades ==
    \A d \in Devices :
      LET o == call[d] IN
      (o.name = "fetchDomainData" /\ o.pc = "done")
        => /\ o.ret = "ok" /\ o.error = ""
           /\ (~o.hadToken \/ o.failed # "") => (o.data = NullSnap /\ o.lastModified = 0)
           /\ ~o.hadToken => o.reqs = 0
C21_Witness ==
    \E d \in Devices :
      /\ call[d].name = "fetchDomainData" /\ call[d].pc = "done"
      /\ call[d].failed = "domainFetch" /\ call[d].ret = "ok" /\ call[d].data = NullSnap

\* C22: when a notification of a status transition is over, every listener
\* that was registered when the transition was made has been called exactly
\* once, with the new status and lastError, in the order of registration.
C22_EachListenerOnceInOrder ==
    notif.pc \in {"done", "aborted"} =>
      /\ Len(notif.called) = Len(notif.arr)
      /\ \A i \in 1..Len(notif.called) :
           /\ notif.called[i].who = notif.arr[i]
           /\ notif.called[i].st = notif.st
           /\ notif.called[i].err = notif.err

\* C29: a listener is not invoked once its unsubscribe function has been
\* called, also when that call is made by another listener during the
\* notification; the listeners that remain are called in their relative order.
C29_NoCallAfterUnsubscribe ==
    /\ \A i \in 1..Len(notif.called) : ~notif.called[i].gone
    /\ \A i, j \in 1..Len(notif.called) :
         i < j => \E a, b \in 1..Len(notif.arr) :
                    a < b /\ notif.arr[a] = notif.called[i].who /\ notif.arr[b] = notif.called[j].who

WellFormed(url) == url.error = "" /\ url.code # "" /\ url.state # 0
Overlapped ==
    /\ scenario = "twoDevices"
    /\ Len(hist) = 4 /\ hist[1][2] = "start" /\ hist[2][2] = "start" /\ hist[1][1] # hist[2][1]
    /\ \A d \in Devices : /\ pc[d] = "none" /\ status[d] = IDLE /\ ret[d] = Resolved(TRUE, Null)
                          /\ remoteData[d] = NullSnap /\ pushed[d] # NullSnap
C24_OverlapLosesUpdate ==
    Overlapped =>
      /\ \E d \in Devices : remote.data = pushed[d]
      /\ \E d \in Devices : \E r \in RecordsOf(pushed[d].list) : r \notin RecordsOf(remote.data.list)
C24_Witness ==
    /\ Overlapped
    /\ pushed["A"] = ArraySnap(<<R1>>) /\ pushed["B"] = ArraySnap(<<R2>>)
    /\ remote.data = ArraySnap(<<R2>>)
    /\ local["A"] = ArraySnap(<<R1>>) /\ local["B"] = ArraySnap(<<R2>>)

\* C25: in array-merge, an id present on both sides whose local updatedAt is
\* newer than or equal to the remote one keeps the local entry and sets
\* hasLocalChanges.
C25_LocalNewerOrEqualFlags ==
    (mPhase # "in" /\ mLocal.kind = "array" /\ mRemote.kind = "array") =>
      \A id \in IdsOf(mLocal.list) \cap IdsOf(mRemote.list) :
        Epoch(CopyOf(mLocal.list, id).updatedAt) >= Epoch(CopyOf(mRemote.list, id).updatedAt)
          => /\ CopyOf(mOut.local.list, id) = CopyOf(mLocal.list, id)
             /\ mOut.hasLocalChanges

\* C25 as the code has it: such an id keeps the local entry; hasLocalChanges
\* is true exactly when some shared id is strictly newer locally or some id
\* is local only, so an id whose two timestamps are equal does not set it.
C25_LocalStrictlyNewerFlags ==
    (mPhase # "in" /\ mLocal.kind = "array" /\ mRemote.kind = "array") =>
      LET shared == IdsOf(mLocal.list) \cap IdsOf(mRemote.list) IN
      /\ \A id \in shared :
           Epoch(CopyOf(mLocal.list, id).updatedAt) >= Epoch(CopyOf(mRemote.list, id).updatedAt)
             => CopyOf(mOut.local.list, id) = CopyOf(mLocal.list, id)
      /\ mOut.hasLocalChanges =
           (\/ \E id \in shared :
                 Epoch(CopyOf(mLocal.list, id).updatedAt) > Epoch(CopyOf(mRemote.list, id).updatedAt)
            \/ IdsOf(mLocal.list) \ IdsOf(mRemote.list) # {})
\* one id, equal timestamps, different contents: local kept, nothing flagged
C25_Witness ==
    /\ mPhase = "once" /\ mLocal.kind = "array" /\ mRemote.kind = "array"
    /\ Len(mLocal.list) = 1 /\ Len(mRemote.list) = 1
    /\ mLocal.list[1].id = mRemote.list[1].id
    /\ mLocal.list[1].updatedAt = "T1" /\ mRemote.list[1].updatedAt = "T1"
    /\ mLocal.list[1].title # mRemote.list[1].title
    /\ mOut.local.list = mLocal.list /\ ~mOut.hasLocalChanges

\* C27: for two snapshots that are neither both sequences nor both composites
\* with items, the one with the strictly newer top-level updatedAt wins, a
\* missing updatedAt counting as epoch 0: remote newer gives remote and no
\* push; otherwise local is kept and is pushed only if it is strictly newer.
Scalars(a, b) == /\ a.kind # "null" /\ b.kind # "null"
                 /\ ~(a.kind = "array" /\ b.kind = "array")
                 /\ ~(a.kind = "items" /\ b.kind = "items")
C27_ScalarLastWriteWins ==
    (mPhase # "in" /\ Scalars(mLocal, mRemote)) =>
      IF Epoch(mRemote.updatedAt) > Epoch(mLocal.updatedAt)
      THEN mOut = [local |-> mRemote, hasLocalChanges |-> FALSE]
      ELSE mOut = [local |-> mLocal,
                   hasLocalChanges |-> Epoch(mLocal.updatedAt) > Epoch(mRemote.updatedAt)]
\* both timestamps missing, different contents: local is kept, nothing is pushed
C27_Witness ==
    /\ mPhase = "once" /\ mLocal.kind = "object" /\ mRemote.kind = "object"
    /\ mLocal.updatedAt = "" /\ mRemote.updatedAt = "" /\ mLocal.meta # mRemote.meta
    /\ mOut = [local |-> mLocal, hasLocalChanges |-> FALSE]

\* C28: for two composites with items, merged.items is the array-merge of the
\* two items sequences, every other field is remote's where remote defines it
\* and local's otherwise, and hasLocalChanges is the flag of that array-merge.
C28_ItemsShallowMerge ==
    (mPhase # "in" /\ mLocal.kind = "items" /\ mRemote.kind = "items") =>
      LET m == mergeArrays(mLocal.list, mRemote.list) IN
      /\ mOut.local.kind = "items"
      /\ mOut.local.list = m.local
      /\ mOut.local.updatedAt = (IF mRemote.updatedAt # "" THEN mRemote.updatedAt ELSE mLocal.updatedAt)
      /\ mOut.local.meta = (IF mRemote.meta # "" THEN mRemote.meta ELSE mLocal.meta)
      /\ mOut.hasLocalChanges = m.hasLocalChanges
\* the fields differ, remote defines one of them, and nothing is flagged
C28_Witness ==
    /\ mPhase = "once" /\ mLocal.kind = "items" /\ mRemote.kind = "items"
    /\ mLocal.meta = "m1" /\ mRemote.meta = "m2" /\ mLocal.updatedAt = "T1" /\ mRemote.updatedAt = ""
    /\ mLocal.list = mRemote.list /\ Len(mLocal.list) = 1
    /\ mOut.local.meta = "m2" /\ mOut.local.updatedAt = "T1" /\ ~mOut.hasLocalChanges

\* C26: a cycle that ends in success made its steps in this order: the Syncing
\* notifications, getLocalData, provider.fetch, setLocalData, provider.push,
\* setLastSync, the Idle notifications; provider.push is among them exactly
\* when reconciliation reported hasLocalChanges.
StepsOf(tr) == LET c == SelectSeq(tr, LAMBDA e : e.op # "notify") IN [i \in 1..Len(c) |-> c[i].op]
SyncingFirst(tr) == \A i \in 1..Len(tr) : tr[i].st = SYNCING =>
    /\ tr[i].op = "notify" /\ tr[i].err = Null
    /\ \A j \in 1..i : tr[j].op = "notify" /\ tr[j].st = SYNCING
C26_StepOrder == [][\A d \in active :
    (pc[d] # "none" /\ pc'[d] = "none" /\ ret'[d] = Resolved(TRUE, Null)) =>
      LET tr == trace'[d]
          heard == Len(listeners[d])
      IN
      /\ StepsOf(tr) = IF merged[d].hasLocalChanges
                       THEN <<"getLocalData", "fetch", "setLocalData", "push", "setLastSync">>
                       ELSE <<"getLocalData", "fetch", "setLocalData", "setLastSync">>
      /\ SyncingFirst(tr)
      /\ Len(tr) >= heard + 4
      /\ tr[Len(tr) - heard] = CallEv("setLastSync")
      /\ \A i \in 1..heard : tr[Len(tr) - heard + i] = NotifyEv(listeners[d][i], IDLE, Null)
      /\ \A i \in 1..Len(tr) : tr[i].op = "notify" =>
            tr[i].st = SYNCING \/ i > Len(tr) - heard]_vars
\* a successful cycle with a listener that heard both notifications, without a push
C26_Witness == \E d \in active :
    /\ pc[d] = "none" /\ ret[d] = Resolved(TRUE, Null) /\ ~merged[d].hasLocalChanges
    /\ Len(trace[d]) = 6
    /\ trace[d][1].op = "notify" /\ trace[d][1].st = SYNCING
    /\ trace[d][6].op = "notify" /\ trace[d][6].st = IDLE
    /\ CountOp(trace[d], "push") = 0

\* C30: the OAuth session is single-use: the step on which a handleCallback
\* succeeds removes the saved session, from then on a handleCallback of that
\* provider with the same code and state is one the state check refuses, and
\* a refused handleCallback returns the invalid-state error and leaves the
\* token record alone.
Redeemed(p, u) ==
    lastCall.op = "exchangeSettles" /\ lastCall.p = p /\ lastCall.url = u /\ lastCall.ret = RetTrue
Refusable(p, u) == StateMismatch(getOAuthState(oauthStore[p], clock), u.state)
C30_SessionSingleUse ==
    /\ \A p \in Providers : \A u \in CallbackUrls :
         [](Redeemed(p, u) => (oauthStore[p] = NoSession /\ [](Refusable(p, u))))
    /\ [][\A p \in Providers :
            (/\ lastCall'.op = "handleCallback" /\ lastCall'.p = p
             /\ lastCall'.url.error = "" /\ lastCall'.url.code # "" /\ lastCall'.url.state # 0
             /\ Refusable(p, lastCall'.url)) =>
               /\ lastCall'.ret = MsgInvalidState /\ lastCall'.ret \in AuthErrors
               /\ tokenStore' = tokenStore /\ cb' = cb /\ exchanges' = exchanges]_vars
\* the only session ever started was redeemed for a token, and the callback
\* that redeemed it was handled again and refused
C30_Witness == \E p \in Providers :
    /\ authSeq = 1 /\ exchanges = 1
    /\ tokenStore[p].has /\ tokenStore[p].accessToken = AccessToken(1)
    /\ oauthStore[p] = NoSession
    /\ lastCall.op = "handleCallback" /\ lastCall.p = p
    /\ lastCall.url = Url("c1", 1, "") /\ lastCall.ret = MsgInvalidState

\* C31: the session is kept per provider and replaced by each startAuth: the
\* step of a startAuth leaves the provider with exactly the new state and its
\* verifier and leaves the other provider's session alone; a callback
\* carrying an earlier state of the provider is rejected with the
\* invalid-state error and sends no exchange; an exchange is sent only for
\* the latest state and carries the verifier issued with it.
C31_LatestSessionOnly ==
    [][\A p \in Providers :
         /\ (authSeq' # authSeq /\ lastCall'.p = p) =>
               /\ oauthStore'[p] = [has |-> TRUE, state |-> authSeq', verifier |-> authSeq',
                                    timestamp |-> clock]
               /\ \A q \in Providers \ {p} : oauthStore'[q] = oauthStore[q]
         /\ (/\ lastCall'.op = "handleCallback" /\ lastCall'.p = p
             /\ lastCall'.url.error = "" /\ lastCall'.url.code # "" /\ lastCall'.url.state # 0
             /\ oauthStore[p].has /\ lastCall'.url.state < oauthStore[p].state) =>
               /\ lastCall'.ret = MsgInvalidState /\ lastCall'.ret \in AuthErrors
               /\ cb' = cb /\ exchanges' = exchanges /\ tokenStore' = tokenStore
         /\ (exchanges' # exchanges /\ lastCall'.p = p) =>
               /\ oauthStore[p].has /\ lastCall'.url.state = oauthStore[p].state
               /\ cb'[p].verifier = lastCall'.url.state
    ]_vars
\* both sessions ever started were the same provider's, and the callback with
\* the state of the first was refused while the second is still saved
C31_Witness == \E p \in Providers :
    /\ authSeq = 2 /\ exchanges = 0
    /\ \A q \in Providers \ {p} : oauthStore[q] = NoSession
    /\ oauthStore[p].has /\ oauthStore[p].state = 2 /\ oauthStore[p].verifier = 2
    /\ lastCall.op = "handleCallback" /\ lastCall.p = p
    /\ lastCall.url = Url("c1", 1, "") /\ lastCall.ret = MsgInvalidState

\* C32: status is always one of Idle, Syncing, Error; an engine starts Idle
\* with lastError null; canSync, getStatus, getError, getLastSync,
\* onStatusChange and the unsubscribe function leave status and lastError as
\* they are, and a step that changes either is a step of sync().
C32_StatusOnlyBySync ==
    /\ \A d \in Devices : status[d] = IDLE /\ lastError[d] = Null
    /\ [](\A d \in Devices : status[d] \in {IDLE, SYNCING, ERROR})
    /\ [][/\ (answer' # answer \/ listeners' # listeners \/ unsubscribed' # unsubscribed) =>
              (status' = status /\ lastError' = lastError)
          /\ \A d \in Devices : (status'[d] # status[d] \/ lastError'[d] # lastError[d]) =>
              (pc'[d] # pc[d] \/ notifCount' = notifCount + 1)]_vars
\* getError is called from inside a listener during the Error notification,
\* after a listener was unsubscribed
C32_Witness == \E d \in active :
    /\ status[d] = ERROR /\ lastError[d] # Null
    /\ answer = Answer("getError", lastError[d])
    /\ notif.pc = "calling" /\ unsubscribed # {}

\* C33: db.mergeData(data) is last-write-wins per idea and never deletes: going
\* through data.ideas in order, an idea whose id is not stored is added, one
\* whose updatedAt is strictly greater than the stored one replaces it, and
\* the stored idea is kept otherwise; ideas that data.ideas does not mention
\* stay as they are, and data without an ideas list changes nothing.
Mentions(l, id) == SelectSeq(l, LAMBDA r : r.id = id)
StrictlyLater(a, b) == a # "" /\ b # "" /\ Epoch(a) > Epoch(b)
RECURSIVE LastWriteWins(_, _)
LastWriteWins(cur, l) ==
    IF l = <<>> THEN cur
    ELSE LastWriteWins(IF cur = <<>> THEN <<Head(l)>>
                       ELSE IF StrictlyLater(Head(l).updatedAt, cur[1].updatedAt) THEN <<Head(l)>>
                       ELSE cur,
                       Tail(l))
C34_TagCountsMatchIdeas ==
    \A t \in TagNames :
      tagsStore[t] = Cardinality({i \in 1..Len(ideasStore) : Includes(ideasStore[i].tags, t)})

\* C35: importData replaces the store: a successful importData(d) leaves
\* exactly the ideas of d.ideas stored and returns their number; a d without
\* version, or whose ideas is not a list, fails with 'Invalid backup file' and
\* leaves the ideas and the tags as they were.
C35_ImportReplaces ==
    [][(dbCall' # dbCall /\ dbCall'.op = "importData") =>
         LET d == dbCall'.data IN
         /\ dbCall'.ret = "ok" =>
               /\ d.version # 0 /\ d.ideas = "list"
               /\ RecordsOf(ideasStore') = RecordsOf(d.list)
               /\ Len(ideasStore') = Len(d.list)
               /\ dbCall'.count = Len(d.list)
         /\ (d.version = 0 \/ d.ideas # "list") =>
               /\ dbCall'.ret = MsgInvalidBackup
               /\ ideasStore' = ideasStore /\ tagsStore' = tagsStore
    ]_vars
\* a backup of one idea and one tag entry was imported as the first call:
\* the database holds that idea and that entry and nothing else
C35_Witness ==
    /\ dbCall.op = "importData" /\ dbCall.ret = "ok" /\ dbCall.count = 1 /\ dbCall.nth = 1
    /\ ideasStore = <<Idea("r2", "T1", "remote", <<>>)>>
    /\ dbCall.data.tags = <<TagEntry("a", 1)>> /\ tagsStore = [t \in TagNames |-> IF t = "a" THEN 1 ELSE 0]

\* C36: lastError is non-null only while status is Error: with status Idle or
\* Syncing lastError is null, and every listener notified of Syncing is given
\* a null error, also in a cycle started from Error.
C36_ErrorOnlyInErrorStatus == \A d \in Devices :
    /\ status[d] \in {IDLE, SYNCING} => lastError[d] = Null
    /\ \A i \in 1..Len(trace[d]) :
         (trace[d][i].op = "notify" /\ trace[d][i].st = SYNCING) => trace[d][i].err = Null
\* a second cycle, started after the first ended in the catch block, has
\* notified its listener of Syncing
C36_Witness == \E d \in active :
    /\ hist = <<<<d, "start">>, <<d, "start">>>>
    /\ status[d] = SYNCING /\ lastError[d] = Null /\ pc[d] = "getLocalData"
    /\ Len(trace[d]) = 2 /\ trace[d][1].op = "notify" /\ trace[d][1].st = SYNCING

\* C37: the persisted last-sync value changes only on the step that ends a
\* cycle with status Idle and result {success: true}, and a cycle that ends
\* with status Error leaves it as it was.
C37_LastSyncOnlyOnSuccess ==
    [][\A d \in Devices :
         /\ lastSync'[d] # lastSync[d] =>
               (status'[d] = IDLE /\ ret'[d] = Resolved(TRUE, Null))
         /\ (pc[d] # "none" /\ pc'[d] = "none" /\ status'[d] = ERROR) =>
               lastSync'[d] = lastSync[d]]_vars

\* C38: a failed push does not drop local changes: when the cycle before ended
\* in the catch block after reconciliation had reported local changes, and the
\* next cycle reads the merged snapshot as its local data and fetches the same
\* remote data, reconciliation reports local changes again and gives the same
\* merged data, which is what the cycle then pushes.
AfterFailedCycle(d) ==
    /\ Len(hist) >= 2 /\ hist[Len(hist)] = <<d, "start">> /\ hist[Len(hist) - 1] = <<d, "start">>
    /\ merged[d].hasLocalChanges
    /\ localData[d] = merged[d].local
C38_FailedPushRetried ==
    [][\A d \in Devices :
         /\ (AfterFailedCycle(d) /\ pc[d] = "fetch" /\ pc'[d] = "setLocalData"
             /\ remoteData'[d] = remoteData[d]) =>
               /\ merged'[d].hasLocalChanges
               /\ merged'[d].local = merged[d].local
         /\ (pc[d] = "push" /\ pc'[d] = "none" /\ ret'[d] = Resolved(TRUE, Null)) =>
               pushed'[d] = merged[d].local
    ]_vars
\* the first cycle merged two sequences and failed in its push; the second
\* has read the merged snapshot, fetched the same remote and is pushing
C38_Witness == \E d \in active :
    /\ hist = <<<<d, "start">>, <<d, "start">>>>
    /\ pc[d] = "push" /\ merged[d].hasLocalChanges
    /\ localData[d].kind = "array" /\ remoteData[d].kind = "array"
    /\ localData[d] = merged[d].local /\ local[d] = merged[d].local
    /\ remoteData[d] = remote.data /\ remoteData[d] # merged[d].local
    /\ Len(merged[d].local.list) > Len(remoteData[d].list)
    /\ lastSync[d] = 0

\* C40: a failed download of an existing data object makes fetch() give data
\* null; the cycle then reconciles as if the remote were absent (the local
\* snapshot unmerged, local changes reported), and when it ends in Idle it has
\* pushed the local snapshot, which replaces the remote content.
DownloadFailed(d) == remote.data # NullSnap /\ remoteData[d] = NullSnap
C40_FailedDownloadOverwrites ==
    [][\A d \in Devices :
         /\ (pc[d] = "fetch" /\ remote.data # NullSnap) =>
               FetchedData(remote, "downloadFails") = NullSnap
         /\ (pc[d] = "fetch" /\ pc'[d] = "setLocalData" /\ DownloadFailed(d)') =>
               merged'[d] = [local |-> localData[d], hasLocalChanges |-> TRUE]
         /\ (pc[d] = "setLocalData" /\ pc'[d] # "setLocalData" /\ DownloadFailed(d)) =>
               pc'[d] \in {"push", "none"} /\ (pc'[d] = "none" => status'[d] = ERROR)
         /\ (pc[d] = "push" /\ pc'[d] = "none" /\ status'[d] = IDLE /\ DownloadFailed(d)) =>
               /\ pushed'[d] = localData[d]
               /\ remote'.data = localData[d]
    ]_vars
\* the remote holds another installation's records, the download failed, the
\* local snapshot was written back unmerged and is being pushed over them
C40_Witness == \E d \in active :
    /\ pc[d] = "push" /\ DownloadFailed(d)
    /\ remote = OtherDoc(scenario) /\ remote.data.kind = "array"
    /\ localData[d].kind = "array" /\ localData[d] # remote.data
    /\ merged[d] = RemoteAbsent(localData[d])
    /\ local[d] = localData[d]

\* C39 (as stated): a record that a device deleted since its last successful
\* cycle and that the remote document still holds is in the device's local
\* sequence when its next cycle ends successfully, and no successful cycle
\* removes a record id from the remote document.
EndsSuccessfully(d) == pc[d] # "none" /\ pc'[d] = "none" /\ ret'[d] = Resolved(TRUE, Null)
RECURSIVE DeletedSince(_, _)
DeletedSince(h, d) == IF h = <<>> \/ h[Len(h)] = <<d, "ok">> THEN {}
    ELSE LET e == h[Len(h)] rest == DeletedSince(SubSeq(h, 1, Len(h) - 1), d) IN
         IF e[1] = d /\ e[2] \in Ids THEN rest \cup {e[2]} ELSE rest
SeqIds(sn) == IF sn.kind = "array" THEN IdsOf(sn.list) ELSE {}
====
